---------------------------- MODULE Spec2Model ----------------------------
(***************************************************************************)
(* NGO funding scraper (scraper/main.py and its collaborators): the        *)
(* keyword classifier, the seen-state tracker and the pipeline run of      *)
(* main(), as a state machine.                                             *)
(*                                                                         *)
(* Texts are strings; a timestamp is a number of hours; an optional value  *)
(* (Python None) is a sequence of length 0 or 1.                           *)
(***************************************************************************)
EXTENDS Integers, Sequences, FiniteSets, TLC

(***************************************************************************)
(* Keyword configuration (main.py:35-58).                                  *)
(***************************************************************************)
HIGH_PRIORITY_KEYWORDS ==
    << "educatie", "educatia", "educational", "educationale", "educativ",
       "steam", "stiinta", "stiinte", "science",
       "tineret", "tineri", "youth",
       "copii", "elevi", "studenti",
       "scoala", "scoli", "scolar",
       "ong", "ngo", "societate civila", "civil society",
       "non-formal", "nonformal",
       "nerambursabil", "nerambursabila", "grant", "granturi" >>

MEDIUM_PRIORITY_KEYWORDS ==
    << "cultura", "cultural", "culturale",
       "inovare", "inovatie", "innovation",
       "digital", "digitalizare", "tehnologie", "technology",
       "capacitare", "formare profesionala",
       "comunitate", "comunitar", "community",
       "incluziune", "incluziv",
       "voluntariat", "civic", "civica",
       "sponsorizare", "mecenatul",
       "sustenabil", "dezvoltare durabila" >>

ALL_KEYWORDS == HIGH_PRIORITY_KEYWORDS \o MEDIUM_PRIORITY_KEYWORDS

(***************************************************************************)
(* Text primitives: str.lower() and the regular expression \b of re.       *)
(***************************************************************************)

LowerChars == "abcdefghijklmnopqrstuvwxyz"

\* The characters \w matches, within the alphabet of the modelled texts.
WordChars == "abcdefghijklmnopqrstuvwxyzABCDEFGHIJKLMNOPQRSTUVWXYZ0123456789_"

CharAt(s, i) == SubSeq(s, i, i)

IsWordChar(c) == \E i \in 1..Len(WordChars) : CharAt(WordChars, i) = c

LowerChar(c) ==
    LET UpperChars == "ABCDEFGHIJKLMNOPQRSTUVWXYZ"
    IN
    IF \E i \in 1..Len(UpperChars) : CharAt(UpperChars, i) = c
    THEN CharAt(LowerChars, CHOOSE i \in 1..Len(UpperChars) : CharAt(UpperChars, i) = c)
    ELSE c

RECURSIVE Lower(_)
Lower(s) ==
    IF Len(s) = 0 THEN s
    ELSE LowerChar(CharAt(s, 1)) \o Lower(SubSeq(s, 2, Len(s)))

\* Faulty variant, for sensitivity of the properties below: the keyword is
\* searched for without the \b on either side.
re_search_substring(keyword, text) ==
    \E i \in 1..(Len(text) - Len(keyword) + 1) :
        SubSeq(text, i, i + Len(keyword) - 1) = keyword

\* re.search(r'\b' + re.escape(keyword) + r'\b', text)
re_search(keyword, text) ==
    LET \* \b at the gap after the first p characters of s: exactly one side is a
        \* word character (the ends of the text count as non-word).
        WordBoundary(s, p) ==
            LET left  == p >= 1 /\ IsWordChar(CharAt(s, p))
                right == p < Len(s) /\ IsWordChar(CharAt(s, p + 1))
            IN  left # right
    IN
    \E i \in 1..(Len(text) - Len(keyword) + 1) :
        /\ SubSeq(text, i, i + Len(keyword) - 1) = keyword
        /\ WordBoundary(text, i - 1)
        /\ WordBoundary(text, i + Len(keyword) - 1)

(***************************************************************************)
(* Bounds of the model.                                                    *)
(***************************************************************************)
\* Paths of listing links on one source site.
MaxUrl == 3

\* Number of values of the truncated URL digest.
DigestSpace == 2

\* Longest list of scraped items handed to the tracker on its own.
MaxItems == 2

\* Most records of a database handed to the tracker on its own.
MaxSeen == 1

\* Latest hour at which a run may start.
MaxClock == 2

\* Most items one pipeline run scrapes over all sources.
MaxScraped == 2

\* Latest day, counted from the day of the run, of a deadline handed to the
\* classifier on its own.
MaxDeadlineDay == 16

(***************************************************************************)
(* Data model.                                                             *)
(***************************************************************************)
\* Python None / a present value.
NONE == << >>

Some(v) == << v >>

Range(s) == { s[i] : i \in 1..Len(s) }

\* timedelta.days counts whole days of 24 hours.
HoursPerDay == 24

\* The closing-soon window of is_closing_soon, in days.
ClosingSoonDays == 14

\* scrape_all_sources' scrapers list: each extractor with the source tags
\* its items carry.
scrapers ==
    << [name |-> "Finantare.ro",            tags |-> {"finantare_ro"}],
       [name |-> "Fonduri Structurale EU",  tags |-> {"fonduri_structurale"}],
       [name |-> "AFCN",                    tags |-> {"afcn"}],
       [name |-> "FDSC / Active Citizens",  tags |-> {"fdsc", "active_citizens"}],
       [name |-> "NGO Hub / Eurodesk",      tags |-> {"ngohub"}] >>

\* f"{source}_{fund_id}", where fund_id is
\* hashlib.md5(href.encode()).hexdigest()[:12]: a digest of bounded width,
\* so two URLs may share one.
FundId(source, url) == << source, url % DigestSpace >>

\* What a listing link and its detail page give: title, description and
\* the deadline text with its parsed date (an hour).
Contents ==
    { [title |-> "Apel STEAM pentru elevi", description |-> "",
       deadline |-> Some("15.01.2027"), deadline_date |-> Some(48)],
      [title |-> "Festival local", description |-> "eveniment cultural",
       deadline |-> NONE, deadline_date |-> NONE],
      [title |-> "Anunt general prelungire", description |-> "",
       deadline |-> NONE, deadline_date |-> NONE] }

\* Titles and descriptions handed to the classifier on its own: keywords
\* of one tier, of both tiers, in upper and mixed case, inside longer
\* words, next to punctuation, and across the join of title and
\* description.
SampleTexts ==
    { << "Apel STEAM pentru elevi", "" >>,
      << "Festival local", "eveniment cultural" >>,
      << "Granturi pentru cultura", "inovare in comunitate" >>,
      << "Anunt general prelungire", "" >>,
      << "Long term plan", "ongoing" >>,
      << "Sprijin pentru ONG", "" >>,
      << "Un Ong local", "" >>,
      << "Retea de ong-uri", "(ong)" >>,
      << "Sprijin societate", "civila activa" >>,
      << "Program nonformal_2026", "tineri2" >> }

\* The paths of the links handed to the tracker on its own.
Urls == 1..MaxUrl

\* In a pipeline run the page of a source tag lists one link, whose
\* content differs from run to run.
ListingUrls == {1}

\* The contents the listings of a pipeline run show: one that matches
\* keywords and one that matches none.
ListingContents ==
    { c \in Contents : c.title \in {"Apel STEAM pentru elevi",
                                     "Anunt general prelungire"} }

\* The dict an extractor appends to jobs.
Opportunity(source, url, c) ==
    [ id            |-> FundId(source, url),
      title         |-> c.title,
      url           |-> url,
      deadline      |-> c.deadline,
      deadline_date |-> c.deadline_date,
      source        |-> source,
      description   |-> c.description ]

EmptyFunding == [ k \in {} |-> NONE ]

Ids(items) == { items[i].id : i \in 1..Len(items) }

(***************************************************************************)
(* Classifier.                                                             *)
(***************************************************************************)
\* match_keywords, worked out once for each text of the model.
Texts == { << c.title, c.description >> : c \in Contents } \cup SampleTexts

MatchedKeywords ==
    LET \* match_keywords on the two fields it reads.
        MatchText(title, description) ==
            LET text == Lower(title \o " " \o description)
            IN  SelectSeq(ALL_KEYWORDS, LAMBDA keyword : re_search(Lower(keyword), text))
    IN
    { << t, MatchText(t[1], t[2]) >> : t \in Texts }

match_keywords(funding) ==
    LET text == << funding.title, funding.description >>
    IN  (CHOOSE m \in MatchedKeywords : m[1] = text)[2]

\* Faulty variant, for sensitivity of the properties below: a keyword of
\* either tier makes an item high priority.
IsHighPriorityAnyTier(matched_keywords) == matched_keywords # << >>

IsHighPriority(matched_keywords) ==
    \E i \in 1..Len(matched_keywords) :
        matched_keywords[i] \in Range(HIGH_PRIORITY_KEYWORDS)

\* (deadline - datetime.now()).days is the floor of the difference in days.
is_closing_soon(funding, now) ==
    IF funding.deadline_date # NONE
    THEN LET days_left == (funding.deadline_date[1] - now) \div HoursPerDay
         IN  0 <= days_left /\ days_left <= ClosingSoonDays
    ELSE FALSE

(***************************************************************************)
(* Date normalizer: parse_date of the extractors. A datetime is the number *)
(* of hours from 00:00 of RunDay to it.                                    *)
(***************************************************************************)
Digits == "0123456789"

InClass(c, chars) == \E i \in 1..Len(chars) : CharAt(chars, i) = c

IsDigit(c) == InClass(c, Digits)

AllDigits(s) == \A i \in 1..Len(s) : IsDigit(CharAt(s, i))

DigitValue(c) == (CHOOSE i \in 1..Len(Digits) : CharAt(Digits, i) = c) - 1

\* int(s) for a string of digits.
RECURSIVE int(_)
int(s) ==
    IF Len(s) = 0 THEN 0
    ELSE 10 * int(SubSeq(s, 1, Len(s) - 1)) + DigitValue(CharAt(s, Len(s)))

DaysInMonth(year, month) ==
    LET \* The calendar of datetime: days per month, leap years, day ordinals.
        DaysInMonthTable == << 31, 28, 31, 30, 31, 30, 31, 31, 30, 31, 30, 31 >>
        IsLeap == year % 4 = 0 /\ (year % 100 # 0 \/ year % 400 = 0)
    IN
    IF month = 2 /\ IsLeap THEN 29 ELSE DaysInMonthTable[month]

RECURSIVE DaysBeforeMonth(_, _)
DaysBeforeMonth(year, month) ==
    IF month = 1 THEN 0
    ELSE DaysBeforeMonth(year, month - 1) + DaysInMonth(year, month - 1)

Ordinal(year, month, day) ==
    LET y == year - 1
        DaysBeforeYear == y * 365 + y \div 4 - y \div 100 + y \div 400
    IN  DaysBeforeYear + DaysBeforeMonth(year, month) + day

\* The day hour 0 of the clock falls on: 13.01.2027.
RunDay == << 2027, 1, 13 >>

\* What a call gives: a value, or an exception left to the caller.
ValueError == [ raised |-> TRUE, value |-> NONE ]

ReturnValue(v) == [ raised |-> FALSE, value |-> v ]

\* datetime(year, month, day): ValueError for numbers that are no date.
datetime(year, month, day) ==
    IF year \in 1..9999 /\ month \in 1..12 /\ day \in 1..DaysInMonth(year, month)
    THEN ReturnValue(Some((Ordinal(year, month, day)
                           - Ordinal(RunDay[1], RunDay[2], RunDay[3])) * HoursPerDay))
    ELSE ValueError

\* The pieces of s between the occurrences of the character sep.
RECURSIVE Split(_, _)
Split(s, sep) ==
    IF \E i \in 1..Len(s) : CharAt(s, i) = sep
    THEN LET i == CHOOSE k \in 1..Len(s) :
                    /\ CharAt(s, k) = sep
                    /\ \A j \in 1..(k - 1) : CharAt(s, j) # sep
         IN  << SubSeq(s, 1, i - 1) >> \o Split(SubSeq(s, i + 1, Len(s)), sep)
    ELSE << s >>

\* The formats parse_date tries, in order.
Formats ==
    << [ fmt |-> "%d.%m.%Y", sep |-> ".", year_first |-> FALSE ],
       [ fmt |-> "%d/%m/%Y", sep |-> "/", year_first |-> FALSE ],
       [ fmt |-> "%d-%m-%Y", sep |-> "-", year_first |-> FALSE ],
       [ fmt |-> "%Y-%m-%d", sep |-> "-", year_first |-> TRUE ] >>

\* datetime.strptime(date_str, fmt): ValueError unless the whole string
\* has the format and its numbers are a date.
strptime(date_str, f) ==
    LET FieldValue(s) == int(IF CharAt(s, 1) = " " THEN SubSeq(s, 2, Len(s)) ELSE s)
        YearField(s) == Len(s) = 4 /\ AllDigits(s)
        MonthField(s) ==
            \/ Len(s) = 1 /\ IsDigit(s) /\ s # "0"
            \/ /\ Len(s) = 2
               /\ \/ CharAt(s, 1) = "0" /\ IsDigit(CharAt(s, 2)) /\ CharAt(s, 2) # "0"
                  \/ CharAt(s, 1) = "1" /\ CharAt(s, 2) \in {"0", "1", "2"}
        \* The directives of strptime: %d, %m and %Y.
        DayField(s) ==
            \/ Len(s) = 1 /\ IsDigit(s) /\ s # "0"
            \/ /\ Len(s) = 2
               /\ \/ CharAt(s, 1) \in {"0", " "} /\ IsDigit(CharAt(s, 2)) /\ CharAt(s, 2) # "0"
                  \/ CharAt(s, 1) \in {"1", "2"} /\ IsDigit(CharAt(s, 2))
                  \/ CharAt(s, 1) = "3" /\ CharAt(s, 2) \in {"0", "1"}
        parts == Split(date_str, f.sep)
    IN  IF Len(parts) # 3 THEN ValueError
        ELSE LET d == IF f.year_first THEN parts[3] ELSE parts[1]
                 m == parts[2]
                 y == IF f.year_first THEN parts[1] ELSE parts[3]
             IN  IF DayField(d) /\ MonthField(m) /\ YearField(y)
                 THEN datetime(int(y), int(m), FieldValue(d))
                 ELSE ValueError

\* "for fmt in [...]: try: return strptime(...) except ValueError: continue",
\* then "return None".
RECURSIVE TryFormats(_, _)
TryFormats(date_str, fmts) ==
    IF fmts = << >> THEN ReturnValue(NONE)
    ELSE LET r == strptime(date_str, Head(fmts))
         IN  IF r.raised THEN TryFormats(date_str, Tail(fmts)) ELSE r

\* The first position from p on whose character is not one of chars.
RunEnd(s, p, chars) ==
    CHOOSE q \in p..(Len(s) + 1) :
        /\ \A j \in p..(q - 1) : InClass(CharAt(s, j), chars)
        /\ q = Len(s) + 1 \/ ~InClass(CharAt(s, q), chars)

\* re.match(r'(\d{1,2})\s+(\w+)\s+(\d{4})', date_str): the groups, when the
\* start of the string matches.
NamedMonthMatch(date_str) ==
    LET day_end   == RunEnd(date_str, 1, Digits)
        name_from == RunEnd(date_str, day_end, " ")
        name_end  == RunEnd(date_str, name_from, WordChars)
        year_from == RunEnd(date_str, name_end, " ")
    IN  IF /\ day_end \in {2, 3}
           /\ name_from > day_end
           /\ name_end > name_from
           /\ year_from > name_end
           /\ year_from + 3 <= Len(date_str)
           /\ AllDigits(SubSeq(date_str, year_from, year_from + 3))
        THEN Some([ day        |-> SubSeq(date_str, 1, day_end - 1),
                    month_name |-> SubSeq(date_str, name_from, name_end - 1),
                    year       |-> SubSeq(date_str, year_from, year_from + 3) ])
        ELSE NONE

\* Nothing is returned; the function goes on.
Pass == ReturnValue(NONE)

\* Faulty variant, for sensitivity of the properties below: the ValueError
\* of datetime is not caught.
TryDatetimeUncaught(year, month, day) == datetime(year, month, day)

\* "try: return datetime(...) except ValueError: pass"
TryDatetime(year, month, day) ==
    LET r == datetime(year, month, day)
    IN  IF r.raised THEN Pass ELSE r

\* parse_date of finantare_ro, afcn and fdsc.
parse_date(date_str) ==
    LET ro_months ==
            << "ianuarie", "februarie", "martie", "aprilie", "mai", "iunie", "iulie",
               "august", "septembrie", "octombrie", "noiembrie", "decembrie" >>
        match == NamedMonthMatch(date_str)
        named ==
            IF match # NONE
               /\ \E i \in 1..Len(ro_months) : ro_months[i] = Lower(match[1].month_name)
            THEN TryDatetime(int(match[1].year),
                             CHOOSE i \in 1..Len(ro_months) :
                                 ro_months[i] = Lower(match[1].month_name),
                             int(match[1].day))
            ELSE Pass
    IN  IF named.raised \/ named.value # NONE
        THEN named
        ELSE TryFormats(date_str, Formats)

\* parse_date of fonduri_structurale.
fonduri_structurale_parse_date(date_str) ==
    IF date_str = "" THEN ReturnValue(NONE) ELSE TryFormats(date_str, Formats)

NormalizeDate(source, date_str) ==
    IF source = "fonduri_structurale"
    THEN fonduri_structurale_parse_date(date_str)
    ELSE parse_date(date_str)

\* Deadline texts handed to the date normalizer: numeric dates of every
\* format and named-month dates, made of the day, month and year texts
\* below, and texts of no format.
DayTexts == {"1", "05", "15", "29", "30", "31", "32", "00"}

MonthTexts == {"2", "02", "04", "12", "13", "00"}

MonthNames == {"februarie", "Aprilie", "mai", "decembrie", "martisor"}

YearTexts == {"2024", "2027"}

NamedDateStrings ==
    { d \o " " \o m \o " " \o y : d \in DayTexts, m \in MonthNames, y \in YearTexts }

(***************************************************************************)
(* Seen-state tracker.                                                     *)
(***************************************************************************)
\* Faulty variant, for sensitivity of the properties below: no item is discarded.
DiscardNothing(matched_keywords) == FALSE

\* "if not matched_keywords: continue"
Discard(matched_keywords) == matched_keywords = << >>

\* Faulty variant, for sensitivity of the properties below: the membership test inverted.
NotSeenInverted(fund_id, funding) == fund_id \in DOMAIN funding

\* The test "fund_id not in seen_data['funding']".
NotSeen(fund_id, funding) == fund_id \notin DOMAIN funding

\* The record process_funding stores for a new item.
SeenRecord(item, matched_keywords, now) ==
    [ first_seen       |-> now,
      title            |-> item.title,
      url              |-> item.url,
      source           |-> item.source,
      deadline         |-> item.deadline,
      matched_keywords |-> matched_keywords ]

\* Faulty variant, for sensitivity of the properties below: the mapping is replaced by the new record alone.
StoreAlone(funding, fund_id, record) == [ k \in {fund_id} |-> record ]

\* seen_data['funding'][fund_id] = record
Store(funding, fund_id, record) ==
    [ k \in DOMAIN funding \cup {fund_id} |->
        IF k = fund_id THEN record ELSE funding[k] ]

\* Faulty variant, for sensitivity of the properties below: a record is stored at every sighting.
RememberLatest(funding, item, matched_keywords, now) ==
    Store(funding, item.id, SeenRecord(item, matched_keywords, now))

\* Faulty variant, for sensitivity of the properties below: the snapshot of an id already seen is refreshed.
RememberRefresh(funding, item, matched_keywords, now) ==
    Store(funding, item.id,
          IF NotSeen(item.id, funding)
          THEN SeenRecord(item, matched_keywords, now)
          ELSE [ SeenRecord(item, matched_keywords, now)
                   EXCEPT !.first_seen = funding[item.id].first_seen ])

\* What observing a matching item does to the mapping: a record is stored
\* for an id not seen, and nothing is done for an id already there.
Remember(funding, item, matched_keywords, now) ==
    IF NotSeen(item.id, funding)
    THEN Store(funding, item.id, SeenRecord(item, matched_keywords, now))
    ELSE funding

\* The fields process_funding sets on a matching item.
Classified(item, matched_keywords, now) ==
    [ id               |-> item.id,
      title            |-> item.title,
      url              |-> item.url,
      deadline         |-> item.deadline,
      deadline_date    |-> item.deadline_date,
      source           |-> item.source,
      description      |-> item.description,
      matched_keywords |-> matched_keywords,
      is_high_priority |-> IsHighPriority(matched_keywords),
      closing_soon     |-> is_closing_soon(item, now) ]

\* One pass of process_funding's loop over the items not yet visited.
RECURSIVE ProcessLoop(_, _, _, _, _)
ProcessLoop(rest, new_matching, all_matching, funding, now) ==
    IF rest = << >>
    THEN [ new_matching |-> new_matching,
           all_matching |-> all_matching,
           funding      |-> funding ]
    ELSE LET item             == Head(rest)
             matched_keywords == match_keywords(item)
             entry            == Classified(item, matched_keywords, now)
         IN  IF Discard(matched_keywords)
             THEN ProcessLoop(Tail(rest), new_matching, all_matching, funding, now)
             ELSE ProcessLoop(Tail(rest),
                              IF NotSeen(item.id, funding)
                              THEN Append(new_matching, entry)
                              ELSE new_matching,
                              Append(all_matching, entry),
                              Remember(funding, item, matched_keywords, now),
                              now)

\* Faulty variant, for sensitivity of the properties below: the records of
\* the new items are not kept.
process_funding_forgetful(all_funding, funding, now) ==
    [ ProcessLoop(all_funding, << >>, << >>, funding, now) EXCEPT !.funding = funding ]

process_funding(all_funding, funding, now) ==
    ProcessLoop(all_funding, << >>, << >>, funding, now)

\* Faulty variant, for sensitivity of the properties below: only the ids of matching items count as listed.
CurrentIdsMatching(all_funding) ==
    { all_funding[i].id : i \in { j \in 1..Len(all_funding) :
                                    match_keywords(all_funding[j]) # << >> } }

\* main's "current_ids = {item['id'] for item in all_funding}"
CurrentIds(all_funding) == Ids(all_funding)

\* Faulty variant, for sensitivity of the properties below: nothing is deleted.
OldIdsNone(funding, current_ids) == {}

\* Faulty variant, for sensitivity of the properties below: the listed ids are deleted instead of the unlisted ones.
OldIdsInverted(funding, current_ids) ==
    { fid \in DOMAIN funding : fid \in current_ids }

\* The keys cleanup_old_funding deletes.
OldIds(funding, current_ids) == { fid \in DOMAIN funding : fid \notin current_ids }

\* Faulty variant, for sensitivity of the properties below: the cleanup is
\* skipped.
cleanup_old_funding_skipped(funding, current_ids) ==
    [ funding |-> funding, removed |-> 0 ]

cleanup_old_funding(funding, current_ids) ==
    LET old == OldIds(funding, current_ids)
    IN  [ funding |-> [ k \in DOMAIN funding \ old |-> funding[k] ],
          removed |-> Cardinality(old) ]


(***************************************************************************)
(* Persistence.                                                            *)
(***************************************************************************)
\* Conditions of data/seen_funding.json: no file, a file open() fails on, a
\* file json.load fails on, a JSON document that is not a database (such as
\* {} or []), or a saved database.
FileKinds == {"absent", "unreadable", "corrupt", "malformed", "db"}

NoDatabaseFile(kind) ==
    LET EmptyDatabase == [ funding |-> EmptyFunding, last_updated |-> NONE ]
    IN
    [ kind |-> kind, data |-> EmptyDatabase ]

DatabaseFile(data) == [ kind |-> "db", data |-> data ]

\* Faulty variant, for sensitivity of the properties below: the file is
\* not read.
load_seen_funding_afresh(f) ==
    [ shape |-> "database", funding |-> EmptyFunding, last_updated |-> NONE ]

\* load_seen_funding: the parsed document when the file exists and parses,
\* the empty database otherwise. shape tells whether the returned value
\* has a 'funding' mapping.
load_seen_funding(f) ==
    IF f.kind = "db"
    THEN [ shape |-> "database", funding |-> f.data.funding,
           last_updated |-> f.data.last_updated ]
    ELSE IF f.kind = "malformed"
         THEN [ shape |-> "other", funding |-> EmptyFunding, last_updated |-> NONE ]
         ELSE [ shape |-> "database", funding |-> EmptyFunding, last_updated |-> NONE ]

\* Outcomes of save_seen_funding: the dump is written; mkdir or open fails
\* and the file is left alone; the write fails after open(..., 'w')
\* truncated the file.
SaveOutcomes == {"written", "not_opened", "truncated"}

\* Faulty variant, for sensitivity of the properties below: the records of
\* the file that the database lacks are written back with it.
save_seen_funding_merging(f, data, outcome) ==
    IF outcome = "written"
    THEN DatabaseFile([ funding |-> [ k \in DOMAIN data.funding \cup DOMAIN f.data.funding |->
                                        IF k \in DOMAIN data.funding
                                        THEN data.funding[k] ELSE f.data.funding[k] ],
                        last_updated |-> data.last_updated ])
    ELSE IF outcome = "truncated" THEN NoDatabaseFile("corrupt") ELSE f

save_seen_funding(f, data, outcome) ==
    IF outcome = "written"
    THEN DatabaseFile([ funding |-> data.funding, last_updated |-> data.last_updated ])
    ELSE IF outcome = "truncated" THEN NoDatabaseFile("corrupt") ELSE f

(***************************************************************************)
(* Dashboard payload.                                                      *)
(***************************************************************************)

generate_dashboard(matching_funding, last_updated) ==
    LET DashboardEntry(item) ==
            [ id               |-> item.id,
              title            |-> item.title,
              url              |-> item.url,
              deadline         |-> item.deadline,
              deadline_date    |-> item.deadline_date,
              source           |-> item.source,
              matched_keywords |-> item.matched_keywords,
              is_high_priority |-> item.is_high_priority,
              closing_soon     |-> item.closing_soon ]
    IN
    [ funding      |-> [ i \in 1..Len(matching_funding) |->
                           DashboardEntry(matching_funding[i]) ],
      last_updated |-> last_updated ]

(***************************************************************************)
(* Inputs.                                                                 *)
(***************************************************************************)
\* Lists of at most n jobs with pairwise distinct URLs per source tag
\* (every extractor skips an href already in seen_urls).
RECURSIVE JobLists(_, _, _, _)
JobLists(tags, urls, contents, n) ==
    IF n = 0 THEN { << >> }
    ELSE LET shorter == JobLists(tags, urls, contents, n - 1)
         IN  shorter \cup
             { Append(l, Opportunity(t, u, c)) :
                 l \in { k \in shorter : Len(k) = n - 1 },
                 t \in tags, u \in urls, c \in contents }

ExtractorResults(tags, urls, contents, n) ==
    LET DistinctUrls(l) ==
            \A i, j \in 1..Len(l) :
                (l[i].source = l[j].source /\ l[i].url = l[j].url) => i = j
    IN
    { l \in JobLists(tags, urls, contents, n) : DistinctUrls(l) }

\* What one call scraper() gives scrape_all_sources: an exception or jobs.
Raised == [ raised |-> TRUE, jobs |-> << >> ]

Returned(jobs) == [ raised |-> FALSE, jobs |-> jobs ]

\* Faulty variant, for sensitivity of the properties below: a scraper that raises loses what the earlier ones returned.
ExtendOrReset(all_funding, outcome) ==
    IF outcome.raised THEN << >> ELSE all_funding \o outcome.jobs

\* main.py:127-133: all_funding.extend(items) when scraper() returned, the
\* except branch when it raised.
Extend(all_funding, outcome) ==
    IF outcome.raised THEN all_funding ELSE all_funding \o outcome.jobs

(***************************************************************************)
(* Extractors: the link filter of every scrape() and the detail fetch.     *)
(***************************************************************************)
\* Most anchors on a listing page.
MaxAnchors == 2

\* str.startswith, str.endswith and the substring test "sub in s".
startswith(s, prefix) ==
    Len(prefix) <= Len(s) /\ SubSeq(s, 1, Len(prefix)) = prefix

endswith(s, suffix) ==
    Len(suffix) <= Len(s) /\ SubSeq(s, Len(s) - Len(suffix) + 1, Len(s)) = suffix

In(sub, s) ==
    \E p \in 1..(Len(s) - Len(sub) + 1) : SubSeq(s, p, p + Len(sub) - 1) = sub

\* any(x in s for x in subs)
AnyIn(subs, s) == \E sub \in subs : In(sub, s)

\* str.lstrip(c), str.rstrip(c) and str.strip() of spaces.
RECURSIVE lstrip(_, _)
lstrip(s, c) ==
    IF Len(s) > 0 /\ CharAt(s, 1) = c THEN lstrip(SubSeq(s, 2, Len(s)), c) ELSE s

RECURSIVE rstrip(_, _)
rstrip(s, c) ==
    IF Len(s) > 0 /\ CharAt(s, Len(s)) = c THEN rstrip(SubSeq(s, 1, Len(s) - 1), c) ELSE s

strip(s) == rstrip(lstrip(s, " "), " ")

\* str.replace(old, new)
RECURSIVE replace(_, _, _)
replace(s, old, new) ==
    IF Len(s) < Len(old) \/ Len(s) = 0 THEN s
    ELSE IF startswith(s, old)
         THEN new \o replace(SubSeq(s, Len(old) + 1, Len(s)), old, new)
         ELSE CharAt(s, 1) \o replace(SubSeq(s, 2, Len(s)), old, new)

\* ' '.join(text.split())[:3000]
RECURSIVE Join(_)
Join(words) ==
    IF words = << >> THEN ""
    ELSE IF Len(words) = 1 THEN words[1]
         ELSE words[1] \o " " \o Join(Tail(words))

Squeeze(text) ==
    LET joined == Join(SelectSeq(Split(text, " "), LAMBDA w : w # ""))
    IN  SubSeq(joined, 1, IF Len(joined) < 3000 THEN Len(joined) ELSE 3000)

\* The listing URLs every extractor fetches, in the order of
\* scrape_all_sources' scrapers: the URL of the page, the base a relative
\* href is joined to, and the source tag of the items found on it.
sites ==
    << << [ url |-> "https://www.finantare.ro/fonduri-nerambursabile.html",
            base |-> "https://www.finantare.ro", source |-> "finantare_ro" ],
          [ url |-> "https://www.finantare.ro/",
            base |-> "https://www.finantare.ro", source |-> "finantare_ro" ] >>,
       << [ url |-> "https://www.fonduri-structurale.ro/apeluri-deschise",
            base |-> "https://www.fonduri-structurale.ro", source |-> "fonduri_structurale" ],
          [ url |-> "https://www.fonduri-structurale.ro/apeluri",
            base |-> "https://www.fonduri-structurale.ro", source |-> "fonduri_structurale" ],
          [ url |-> "https://www.fonduri-structurale.ro",
            base |-> "https://www.fonduri-structurale.ro", source |-> "fonduri_structurale" ] >>,
       << [ url |-> "https://www.afcn.ro/programe/proiecte-culturale",
            base |-> "https://www.afcn.ro", source |-> "afcn" ],
          [ url |-> "https://www.afcn.ro/programe/proiecte-editoriale",
            base |-> "https://www.afcn.ro", source |-> "afcn" ],
          [ url |-> "https://www.afcn.ro",
            base |-> "https://www.afcn.ro", source |-> "afcn" ] >>,
       << [ url |-> "https://www.fdsc.ro",
            base |-> "https://www.fdsc.ro", source |-> "fdsc" ],
          [ url |-> "https://www.activecitizensfund.ro",
            base |-> "https://www.activecitizensfund.ro", source |-> "active_citizens" ] >>,
       << [ url |-> "https://ngohub.ro",
            base |-> "https://ngohub.ro", source |-> "ngohub" ],
          [ url |-> "https://www.eurodesk.ro",
            base |-> "https://www.eurodesk.ro", source |-> "ngohub" ] >> >>

\* The dict an extractor appends to jobs for a link; its id holds
\* hashlib.md5(href.encode()).hexdigest()[:12] of the URL text, a digest
\* of bounded width.
Job(source, href, title) ==
    [ id            |-> << source, Len(href) % DigestSpace >>,
      title         |-> title,
      url           |-> href,
      deadline      |-> NONE,
      deadline_date |-> NONE,
      source        |-> source,
      description   |-> "" ]

\* "if href.startswith('/'): href = base + href"
Absolute(base, raw) == IF startswith(raw, "/") THEN base \o raw ELSE raw

\* "if not title or len(title) < n"
TooShort(title, n) == Len(title) < n

\* finantare_ro.py:50-99: what one anchor adds to jobs, if anything, but
\* for the test "href in seen_urls", which LinkLoop makes for every
\* extractor.
finantare_ro_link(a, page) ==
    LET CleanTitle(title) ==
            LET \* finantare_ro.py:84: re.sub(r'^(Previous|Next)(Previous|Next)?\s*post:', '', title).strip()
                Behind(s, words) ==
                    IF \E w \in words : startswith(s, w)
                    THEN Some(SubSeq(s, Len(CHOOSE w \in words : startswith(s, w)) + 1, Len(s)))
                    ELSE NONE
                first == Behind(title, {"Previous", "Next"})
            IN  IF first = NONE THEN strip(title)
                ELSE LET second == Behind(first[1], {"Previous", "Next"})
                         rest   == lstrip(IF second = NONE THEN first[1] ELSE second[1], " ")
                     IN  IF startswith(rest, "post:")
                         THEN strip(SubSeq(rest, Len("post:") + 1, Len(rest)))
                         ELSE strip(title)
        \* finantare_ro.py:69: re.match(r'https://www\.finantare\.ro/[a-z0-9-]+/$', href)
        CleanArticleUrl(href) ==
            LET prefix == "https://www.finantare.ro/"
                rest   == SubSeq(href, Len(prefix) + 1, Len(href))
            IN  /\ startswith(href, prefix)
                /\ Len(rest) >= 2
                /\ endswith(rest, "/")
                /\ \A i \in 1..(Len(rest) - 1) :
                      InClass(CharAt(rest, i), LowerChars \o Digits \o "-")
        href  == Absolute(page.base, a.href)
        title == CleanTitle(a.text)
    IN  IF /\ startswith(a.href, page.base \o "/") \/ startswith(a.href, "/")
           /\ ~AnyIn({ "/category/", "/tag/", "/page/", "/author/", "#",
                       "/wp-content/", "/feed/", "/contact", "facebook.com",
                       "twitter.com", "/despre-noi", "/wp-login", "/wp-admin" }, href)
           /\ endswith(href, ".html") \/ CleanArticleUrl(href)
           /\ ~TooShort(a.text, 10)
           /\ Lower(a.text) \notin { "acasa", "home", "contact", "despre noi", "mai multe" }
           /\ ~TooShort(title, 10)
        THEN Some(Job(page.source, href, title))
        ELSE NONE

\* fonduri_structurale.py:46: the elements soup.select() gives: the card
\* elements and the anchors whose href contains "/apel".
Cards(anchors) == SelectSeq(anchors, LAMBDA a : a.in_card \/ In("/apel", a.href))

\* fonduri_structurale.py:134-174: parse_card, for a card without a
\* paragraph and without a deadline text.
parse_card(a, page) ==
    LET url   == IF startswith(a.href, "/") THEN page.base \o a.href
                 ELSE IF ~startswith(a.href, "http") THEN page.base \o "/" \o a.href
                      ELSE a.href
        title == IF a.in_card /\ a.heading # "" THEN a.heading ELSE a.text
    IN  IF TooShort(title, 5) THEN NONE ELSE Some(Job(page.source, url, title))

\* fonduri_structurale.py:51-80: one anchor of a page that has no cards.
fonduri_structurale_link(a, page) ==
    LET href == Absolute(page.base, a.href)
    IN  IF /\ startswith(a.href, "/") \/ startswith(a.href, page.base)
           /\ AnyIn({ "apel", "finantare", "grant", "program" }, Lower(href))
           /\ ~TooShort(a.text, 10)
        THEN Some(Job(page.source, href, a.text))
        ELSE NONE

\* afcn.py:40-83
afcn_link(a, page) ==
    LET href == Absolute("https://www.afcn.ro", a.href)
    IN  IF /\ startswith(a.href, "/") \/ startswith(a.href, "http")
           /\ In("afcn.ro", href)
           /\ ~AnyIn({ "#", "/wp-content/", "/feed/", "javascript:",
                       "facebook.com", "twitter.com", "/login" }, href)
           /\ ~TooShort(a.text, 10)
           /\ \E kw \in { "program", "proiect", "sesiune", "finantare", "fonduri",
                          "apel", "concurs", "grant", "cultural", "editorial" } :
                  In(kw, Lower(href)) \/ In(kw, Lower(a.text))
        THEN Some(Job(page.source, href, a.text))
        ELSE NONE

\* fdsc.py:37-98: the title is taken from a heading near the link when the
\* text of the link is short or generic.
fdsc_link(a, page) ==
    LET href   == Absolute(page.base, a.href)
        domain == replace(replace(replace(page.base, "https://", ""), "http://", ""), "www.", "")
        title  == IF ( TooShort(a.text, 15)
                       \/ Lower(a.text) \in { "afla mai multe", "citeste", "read more", "mai mult" } )
                     /\ a.heading # ""
                  THEN a.heading
                  ELSE a.text
    IN  IF /\ startswith(a.href, "/") \/ startswith(a.href, "http")
           /\ In(domain, href)
           /\ ~AnyIn({ "#", "/wp-content/", "/feed/", "javascript:", ".pdf", ".doc",
                       ".png", ".jpg", ".css", ".js" }, href)
           /\ ~TooShort(title, 10)
           /\ AnyIn({ "grant", "finantare", "finantar", "apel", "fond", "program",
                      "proiect", "concurs", "sesiune", "call", "funding", "ngo", "ong",
                      "civic", "democratie", "drept", "egal", "incluziune" },
                    Lower(href \o " " \o title))
        THEN Some(Job(IF In("activecitizensfund", page.base) THEN "active_citizens" ELSE "fdsc",
                      href, title))
        ELSE NONE

\* ngohub.py:39-78
ngohub_link(a, page) ==
    LET href == Absolute(rstrip(page.base, "/"), a.href)
    IN  IF /\ startswith(a.href, "/") \/ startswith(a.href, "http")
           /\ ~AnyIn({ "#", "javascript:", ".pdf", ".doc", "facebook.com",
                       "twitter.com", "linkedin.com" }, href)
           /\ ~TooShort(a.text, 10)
           /\ AnyIn({ "grant", "finantare", "finantar", "fond", "funding", "apel",
                      "program", "concurs", "burs", "sponsoriz" },
                    Lower(href \o " " \o a.text))
        THEN Some(Job(page.source, href, a.text))
        ELSE NONE

\* The anchors of the modelled listing pages: two relative links to calls,
\* a link to another site with a funding word, a link to another site whose
\* path names afcn.ro, a fragment, a generic link under a heading, and a
\* navigation link.
Anchors ==
    { [ href |-> "/apel-granturi.html", text |-> "Next post: Apel granturi 2027",
        heading |-> "", in_card |-> FALSE ],
      [ href |-> "/program-cultural.html", text |-> "Program cultural 2027",
        heading |-> "", in_card |-> FALSE ],
      [ href |-> "https://example.org/grant.html", text |-> "Program de finantare",
        heading |-> "", in_card |-> FALSE ],
      [ href |-> "https://example.org/afcn.ro/apel.html", text |-> "Sesiune de finantare",
        heading |-> "", in_card |-> FALSE ],
      [ href |-> "#top", text |-> "Inapoi la inceput",
        heading |-> "", in_card |-> FALSE ],
      [ href |-> "https://www.fdsc.ro/proiecte/", text |-> "Citeste",
        heading |-> "Fondul pentru proiecte civice", in_card |-> TRUE ],
      [ href |-> "/despre-noi", text |-> "Despre noi",
        heading |-> "", in_card |-> FALSE ] }

\* What every modelled anchor gives on every listing page.
Links ==
    LET \* The body of the loop over the links of the n-th listing page of
        \* extractor i; carded tells whether soup.select() found cards on it.
        Link(i, n, a, carded) ==
            IF i = 1 THEN finantare_ro_link(a, sites[i][n])
            ELSE IF i = 2
                 THEN IF carded THEN parse_card(a, sites[i][n])
                                ELSE fonduri_structurale_link(a, sites[i][n])
                 ELSE IF i = 3 THEN afcn_link(a, sites[i][n])
                      ELSE IF i = 4 THEN fdsc_link(a, sites[i][n])
                           ELSE ngohub_link(a, sites[i][n])
    IN
    [ i \in 1..Len(sites) |->
        [ n \in 1..Len(sites[i]) |->
            [ a \in Anchors |-> [ carded \in BOOLEAN |-> Link(i, n, a, carded) ] ] ] ]

\* "for link in links": jobs.append and seen_urls.add for every link kept;
\* a link whose URL is in seen_urls is skipped.
RECURSIVE LinkLoop(_, _, _, _, _)
LinkLoop(i, n, anchors, jobs, carded) ==
    IF anchors = << >> THEN jobs
    ELSE LET job       == Links[i][n][Head(anchors)][carded]
             seen_urls == { jobs[k].url : k \in 1..Len(jobs) }
         IN  LinkLoop(i, n, Tail(anchors),
                      IF job = NONE \/ job[1].url \in seen_urls
                      THEN jobs
                      ELSE Append(jobs, job[1]),
                      carded)

\* "for page_url in ...": the loop over the listing URLs of extractor i
\* from the n-th on.
RECURSIVE PageLoop(_, _, _, _)
PageLoop(i, n, listings, jobs) ==
    IF n > Len(sites[i]) THEN jobs
    ELSE IF listings[n].failed THEN PageLoop(i, n + 1, listings, jobs)
         ELSE LET cards == Cards(listings[n].anchors)
              IN  PageLoop(i, n + 1, listings,
                           IF i = 2 /\ cards # << >>
                           THEN LinkLoop(i, n, cards, jobs, TRUE)
                           ELSE LinkLoop(i, n, listings[n].anchors, jobs, FALSE))

\* What fetching a detail page gives: requests raises, the parser raises,
\* or a page with its text and the date text the first deadline pattern
\* that matches captures, if any does.
DetailFailed(step) == [ failed |-> step, text |-> "", date_str |-> NONE ]

DetailFailures == { DetailFailed("request"), DetailFailed("parse") }

EmptyDetails == [ deadline |-> NONE, deadline_date |-> NONE, description |-> "" ]

\* The date parsing of the detail fetch: parse_date, or the formats
\* ngohub.py:122-127 tries.
DetailDate(source, date_str) ==
    IF source = "ngohub" THEN TryFormats(date_str, Formats)
    ELSE NormalizeDate(source, date_str)

\* Faulty variant, for sensitivity of the properties below: the detail
\* fetch has no except clause.
fetch_details_uncaught(source, outcome) ==
    IF outcome \in DetailFailures
    THEN [ raised |-> TRUE, result |-> EmptyDetails ]
    ELSE [ raised |-> FALSE,
           result |-> [ deadline      |-> outcome.date_str,
                        deadline_date |-> IF outcome.date_str = NONE THEN NONE
                                          ELSE DetailDate(source, outcome.date_str[1]).value,
                        description   |-> Squeeze(outcome.text) ] ]

\* fetch_article_details and fetch_details: result as it is when the
\* except clause is reached, and nothing raised to scrape().
fetch_details(source, outcome) ==
    IF outcome \in DetailFailures
    THEN [ raised |-> FALSE, result |-> EmptyDetails ]
    ELSE LET date == IF outcome.date_str = NONE THEN ReturnValue(NONE)
                     ELSE DetailDate(source, outcome.date_str[1])
         IN  [ raised |-> FALSE,
               result |-> [ deadline      |-> outcome.date_str,
                            deadline_date |-> IF date.raised THEN NONE ELSE date.value,
                            description   |-> Squeeze(outcome.text) ] ]

\* The detail pages of the modelled sites.
DetailPages ==
    LET DetailPage(text, date_str) == [ failed |-> "no", text |-> text, date_str |-> date_str ]
    IN
    { DetailPage("Termen  limita: 15.01.2027 ", Some("15.01.2027")) }

\* What the detail fetch of every source gives for every modelled outcome.
Details ==
    [ source \in { "finantare_ro", "afcn", "fdsc", "active_citizens", "ngohub" } |->
        [ outcome \in DetailFailures \cup DetailPages |-> fetch_details(source, outcome) ] ]

\* "if details['deadline']: ... if details['description']: ..."
MergeDetails(job, details) ==
    [ job EXCEPT
        !.deadline      = IF details.deadline # NONE THEN details.deadline ELSE @,
        !.deadline_date = IF details.deadline # NONE THEN details.deadline_date ELSE @,
        !.description   = IF details.description # "" THEN details.description ELSE @ ]

\* "for job in jobs[:20]": the detail fetches from the n-th job on;
\* fetched[n] is what fetching the page of the n-th job gives.
RECURSIVE DetailLoop(_, _, _)
DetailLoop(jobs, n, fetched) ==
    IF n > Len(jobs) THEN Returned(jobs)
    ELSE LET details == Details[jobs[n].source][fetched[n]]
         IN  IF details.raised THEN Raised
             ELSE DetailLoop([ jobs EXCEPT ![n] = MergeDetails(jobs[n], details.result) ],
                             n + 1, fetched)

\* scrape() of extractor i on a site: fonduri_structurale fetches no
\* detail pages.
scrape(i, site) ==
    LET jobs == PageLoop(i, 1, site.listings, << >>)
    IN  IF i = 2 THEN Returned(jobs) ELSE DetailLoop(jobs, 1, site.fetched)

\* Listing pages of at most n anchors.
RECURSIVE AnchorLists(_)
AnchorLists(n) ==
    IF n = 0 THEN { << >> }
    ELSE LET shorter == AnchorLists(n - 1)
         IN  shorter \cup { Append(l, a) : l \in { k \in shorter : Len(k) = n - 1 },
                                           a \in Anchors }

(***************************************************************************)
(* State.                                                                  *)
(***************************************************************************)
VARIABLES
    pc,                 \* position in main(), or in the tracker on its own
    argv,               \* sys.argv of the process
    log,                \* the calls the process has made, in order
    now,                \* datetime.now(), in hours
    file,               \* data/seen_funding.json
    seen_data,          \* main's seen_data
    src_idx,            \* scrape_all_sources: index of the next scraper
    scraper_result,     \* scrape_all_sources: outcome of the last scraper()
    all_funding,        \* scraped items
    current_ids,        \* main's current_ids
    new_matching,       \* process_funding's first result
    all_matching,       \* process_funding's second result
    notified,           \* calls of notifier.send_notification, in order
    notification_count, \* main's notification_count
    removed,            \* cleanup_old_funding's result
    dashboard,          \* what this run wrote to docs/index.html
    retval,             \* main's return value
    web,                \* the pages an extractor fetches
    browser,            \* docs/index.html open in a browser, and its localStorage
    processes,          \* processes of main() running side by side on the same files
    history             \* what the runs so far observed and reported

vars == << pc, argv, log, now, file, seen_data, src_idx, scraper_result, all_funding, current_ids,
           new_matching, all_matching, notified, notification_count, removed,
           dashboard, retval, web, browser, processes, history >>

\* No page fetched, no dashboard opened in a browser, no processes side
\* by side, no run completed.
NoWeb == << >>

NoBrowser == << >>

NoProcesses == << >>

NoHistory == << >>

Apart == web = NoWeb /\ browser = NoBrowser /\ processes = NoProcesses /\ history = NoHistory

\* The locals of a run before main() has set them.
FreshLocals ==
    /\ log = << >>
    /\ src_idx = 1
    /\ scraper_result = Returned(<< >>)
    /\ all_funding = << >>
    /\ current_ids = {}
    /\ new_matching = << >>
    /\ all_matching = << >>
    /\ notified = << >>
    /\ notification_count = 0
    /\ removed = 0
    /\ dashboard = NONE
    /\ retval = NONE

(***************************************************************************)
(* Command line and notifier.                                              *)
(***************************************************************************)

\* What happens inside send_notification's try block: the POST is answered
\* 2xx; requests raises (connection error, timeout, raise_for_status on a
\* non-2xx answer); building the message raises something else.
SendOutcomes == {"delivered", "request_failed", "build_failed"}

\* Faulty variant, for sensitivity of the properties below: only
\* requests.RequestException is caught.
send_notification_uncaught(outcome) ==
    [ returned |-> outcome = "delivered", raised |-> outcome = "build_failed" ]

\* notifier.send_notification: True after the POST succeeded, False from
\* either except clause; nothing is raised to the caller.
send_notification(outcome) ==
    [ returned |-> outcome = "delivered", raised |-> FALSE ]

\* Faulty variant, for sensitivity of the properties below: the exit code
\* does not depend on the delivery.
test_notifications_zero(delivered) == 0

\* main.py:780-788: test_notifications' return value.
test_notifications(delivered) == IF delivered THEN 0 ELSE 1

\* Faulty variant, for sensitivity of the properties below: every matching
\* item is notified.
ToNotifyAllMatching(new, matching) == matching

\* main.py:752: "for item in new_matching".
ToNotify(new, matching) == new

(***************************************************************************)
(* The pipeline: main().                                                   *)
(***************************************************************************)
Init ==
    /\ Apart
    /\ pc = "idle"
    /\ argv = << "main.py" >>
    /\ now = 0
    /\ file \in { NoDatabaseFile(k) : k \in FileKinds \ {"db"} }
    /\ seen_data = load_seen_funding(NoDatabaseFile("absent"))
    /\ FreshLocals

\* The program is started, some time after the previous process ended:
\* main.py:791-795 calls test_notifications() or main().
Invoke ==
    LET \* main.py:792: len(sys.argv) > 1 and sys.argv[1] == "--test-notify"
        TestMode(args) == Len(args) > 1 /\ args[2] = "--test-notify"
        \* The command lines the program is started with: argv[1] is sys.argv[0].
        Argvs ==
            { << "main.py" >>,
              << "main.py", "--test-notify" >>,
              << "main.py", "--verbose", "--test-notify" >> }
        \* The process is started: nothing is set yet.
        ResetLocals ==
            /\ log' = << >>
            /\ src_idx' = 1
            /\ scraper_result' = Returned(<< >>)
            /\ all_funding' = << >>
            /\ current_ids' = {}
            /\ new_matching' = << >>
            /\ all_matching' = << >>
            /\ notified' = << >>
            /\ notification_count' = 0
            /\ removed' = 0
            /\ dashboard' = NONE
            /\ retval' = NONE
    IN
    /\ pc \in {"idle", "done", "crashed", "exited"}
    /\ now < MaxClock
    /\ now' = now + 1
    /\ argv' \in Argvs
    /\ pc' = IF TestMode(argv') THEN "test" ELSE "load"
    /\ seen_data' = load_seen_funding(NoDatabaseFile("absent"))
    /\ ResetLocals
    /\ UNCHANGED << web, browser, processes, history, file >>

\* main.py:780-788 and notifier.py:105-123: send_test_notification answers
\* True or False, and the process exits with test_notifications' value.
TestNotifications ==
    /\ pc = "test"
    /\ \E delivered \in BOOLEAN :
          /\ log' = Append(log, IF delivered
                                THEN "send_test_notification: sent"
                                ELSE "send_test_notification: failed")
          /\ retval' = Some(test_notifications(delivered))
    /\ pc' = "exited"
    /\ UNCHANGED << web, browser, processes, history, argv, now, file, seen_data, src_idx, scraper_result, all_funding,
                    current_ids, new_matching, all_matching, notified,
                    notification_count, removed, dashboard >>

\* main.py:738-739: load, then len(seen_data['funding']).
Load ==
    /\ pc = "load"
    /\ log' = Append(log, "load_seen_funding")
    /\ seen_data' = load_seen_funding(file)
    /\ pc' = IF seen_data'.shape = "database" THEN "scrape" ELSE "crashed"
    /\ UNCHANGED << web, browser, processes, history, argv, now, file, src_idx, scraper_result, all_funding, current_ids,
                    new_matching, all_matching, notified, notification_count,
                    removed, dashboard, retval >>

\* main.py:126-135: one turn of scrape_all_sources' loop, and its return
\* after the last scraper.
ScrapeSource ==
    /\ pc = "scrape"
    /\ src_idx \in 1..Len(scrapers)
    /\ log' = Append(log, "scraper")
    /\ \E outcome \in { Raised } \cup
            { Returned(l) : l \in ExtractorResults(scrapers[src_idx].tags,
                                                   ListingUrls,
                                                   ListingContents,
                                                   MaxScraped - Len(all_funding)) } :
          /\ scraper_result' = outcome
          /\ all_funding' = Extend(all_funding, outcome)
    /\ src_idx' = src_idx + 1
    /\ pc' = IF src_idx = Len(scrapers) THEN "scraped" ELSE "scrape"
    /\ UNCHANGED << web, browser, processes, history, argv, now, file, seen_data, current_ids, new_matching,
                    all_matching, notified, notification_count, removed,
                    dashboard, retval >>

\* process_funding's effect on the variables it sets.
ApplyProcess ==
    LET r == process_funding(all_funding, seen_data.funding, now)
    IN  /\ new_matching' = r.new_matching
        /\ all_matching' = r.all_matching
        /\ seen_data' = [ seen_data EXCEPT !.funding = r.funding ]

\* main.py:744-746.
Process ==
    /\ pc = "scraped"
    /\ log' = Append(log, "process_funding")
    /\ current_ids' = CurrentIds(all_funding)
    /\ ApplyProcess
    /\ pc' = "notify"
    /\ UNCHANGED << web, browser, processes, history, argv, now, file, src_idx, scraper_result, all_funding, notified,
                    notification_count, removed, dashboard, retval >>

\* main.py:752-756: one turn of the notification loop.
Notify ==
    /\ pc = "notify"
    /\ Len(notified) < Len(ToNotify(new_matching, all_matching))
    /\ log' = Append(log, "send_notification")
    /\ LET item == ToNotify(new_matching, all_matching)[Len(notified) + 1]
       IN  \E outcome \in SendOutcomes :
             LET r == send_notification(outcome)
             IN  /\ notified' = Append(notified,
                                       [ id               |-> item.id,
                                         matched_keywords |-> item.matched_keywords,
                                         returned         |-> r.returned ])
                 /\ notification_count' =
                        IF r.returned THEN notification_count + 1
                                      ELSE notification_count
                 /\ pc' = IF r.raised THEN "crashed" ELSE "notify"
    /\ UNCHANGED << web, browser, processes, history, argv, now, file, seen_data, src_idx, scraper_result, all_funding,
                    current_ids, new_matching, all_matching, removed,
                    dashboard, retval >>

\* cleanup_old_funding's effect on the variables it sets.
ApplyCleanup ==
    LET r == cleanup_old_funding(seen_data.funding, current_ids)
    IN  /\ seen_data' = [ seen_data EXCEPT !.funding = r.funding ]
        /\ removed' = r.removed

\* main.py:758.
Cleanup ==
    /\ pc = "notify"
    /\ Len(notified) = Len(ToNotify(new_matching, all_matching))
    /\ log' = Append(log, "cleanup_old_funding")
    /\ ApplyCleanup
    /\ pc' = "cleaned"
    /\ UNCHANGED << web, browser, processes, history, argv, now, file, src_idx, scraper_result, all_funding, current_ids,
                    new_matching, all_matching, notified, notification_count,
                    dashboard, retval >>

\* main.py:762-764.
Save ==
    /\ pc = "cleaned"
    /\ log' = Append(log, "save_seen_funding")
    /\ seen_data' = [ seen_data EXCEPT !.last_updated = Some(now) ]
    /\ \E outcome \in SaveOutcomes :
          file' = save_seen_funding(file, seen_data', outcome)
    /\ pc' = "saved"
    /\ UNCHANGED << web, browser, processes, history, argv, now, src_idx, scraper_result, all_funding, current_ids,
                    new_matching, all_matching, notified, notification_count,
                    removed, dashboard, retval >>

\* main.py:766-767: the dashboard is rendered; writing it may fail.
Dashboard ==
    /\ pc = "saved"
    /\ log' = Append(log, "generate_dashboard")
    /\ \E written \in BOOLEAN :
          dashboard' = IF written
                       THEN Some(generate_dashboard(all_matching, now))
                       ELSE NONE
    /\ pc' = "rendered"
    /\ UNCHANGED << web, browser, processes, history, argv, now, file, seen_data, src_idx, scraper_result, all_funding,
                    current_ids, new_matching, all_matching, notified,
                    notification_count, removed, retval >>

\* main.py:777.
Return ==
    /\ pc = "rendered"
    /\ retval' = Some(0)
    /\ pc' = "done"
    /\ UNCHANGED << web, browser, processes, history, argv, log, now, file, seen_data, src_idx, scraper_result,
                    all_funding, current_ids, new_matching, all_matching,
                    notified, notification_count, removed, dashboard >>

Next ==
    \/ Invoke
    \/ TestNotifications
    \/ Load
    \/ ScrapeSource
    \/ Process
    \/ Notify
    \/ Cleanup
    \/ Save
    \/ Dashboard
    \/ Return

Spec == Init /\ [][Next]_vars

(***************************************************************************)
(* The tracker on its own: process_funding and cleanup_old_funding applied *)
(* to a list of scraped items and a loaded database, then applied again    *)
(* to the same list and the database they left.                            *)
(***************************************************************************)

TrackerInit ==
    LET TrackerFundings ==
            LET TrackerIds == { FundId("afcn", u) : u \in Urls }
                \* The records a database may hold for an id: snapshots of matching items.
                RecordsFor(fid) ==
                    { SeenRecord(Opportunity(fid[1], u, c), match_keywords(c), 0) :
                        u \in { v \in Urls : FundId(fid[1], v) = fid },
                        c \in { d \in Contents : match_keywords(d) # << >> } }
            IN
            UNION { { f \in [ keys -> UNION { RecordsFor(k) : k \in keys } ] :
                        \A k \in keys : f[k] \in RecordsFor(k) } :
                    keys \in { K \in SUBSET TrackerIds : Cardinality(K) <= MaxSeen } }
    IN
    /\ Apart
    /\ pc = "t_scraped"
    /\ argv = << "main.py" >>
    /\ log = << >>
    /\ now = 1
    /\ \E f \in TrackerFundings :
          /\ file = DatabaseFile([ funding |-> f, last_updated |-> Some(0) ])
          /\ seen_data = load_seen_funding(file)
    /\ all_funding \in ExtractorResults({"afcn"}, Urls, Contents, MaxItems)
    /\ src_idx = Len(scrapers) + 1
    /\ scraper_result = Returned(<< >>)
    /\ current_ids = {}
    /\ new_matching = << >>
    /\ all_matching = << >>
    /\ notified = << >>
    /\ notification_count = 0
    /\ removed = 0
    /\ dashboard = NONE
    /\ retval = NONE

TrackerProcess ==
    /\ pc = "t_scraped"
    /\ current_ids' = CurrentIds(all_funding)
    /\ ApplyProcess
    /\ pc' = "t_processed"
    /\ UNCHANGED << web, browser, processes, history, argv, log, now, file, src_idx, scraper_result, all_funding,
                    notified, notification_count, removed, dashboard, retval >>

TrackerCleanup ==
    /\ pc = "t_processed"
    /\ ApplyCleanup
    /\ pc' = "t_cleaned"
    /\ UNCHANGED << web, browser, processes, history, argv, log, now, file, src_idx, scraper_result, all_funding,
                    current_ids, new_matching, all_matching, notified,
                    notification_count, dashboard, retval >>

\* The database is saved, and loaded again by a later run that scrapes
\* the same items.
TrackerAgain ==
    /\ pc = "t_cleaned"
    /\ now < MaxClock
    /\ now' = now + 1
    /\ file' = save_seen_funding(file, seen_data, "written")
    /\ seen_data' = load_seen_funding(file')
    /\ current_ids' = {}
    /\ new_matching' = << >>
    /\ all_matching' = << >>
    /\ removed' = 0
    /\ pc' = "t_scraped"
    /\ UNCHANGED << web, browser, processes, history, argv, log, src_idx, scraper_result, all_funding, notified,
                    notification_count, dashboard, retval >>

TrackerNext ==
    \/ TrackerProcess
    \/ TrackerCleanup
    \/ TrackerAgain

TrackerSpec == TrackerInit /\ [][TrackerNext]_vars

(***************************************************************************)
(* The classifier on its own: process_funding applied to one scraped item  *)
(* at some hour of the day of the run, against an empty database.          *)
(***************************************************************************)
ClassifierInit ==
    LET \* What the classifier gets on its own: every sample text without a
        \* deadline, and one matching text with every deadline (the classifier
        \* does not read the deadline text).
        ClassifierContents ==
            LET \* The hours a deadline handed to the classifier on its own may fall on,
                \* counted from 00:00 of the day of the run.
                DeadlineHours == (0 - 2 * HoursPerDay)..(MaxDeadlineDay * HoursPerDay)
            IN
            { [title |-> t[1], description |-> t[2],
               deadline |-> NONE, deadline_date |-> NONE] : t \in SampleTexts }
            \cup
            { [title |-> "Apel STEAM pentru elevi", description |-> "",
               deadline |-> Some("termen limita"), deadline_date |-> Some(h)] :
                h \in DeadlineHours }
    IN
    /\ Apart
    /\ pc = "c_scraped"
    /\ argv = << "main.py" >>
    /\ now \in 0..(HoursPerDay - 1)
    /\ file = NoDatabaseFile("absent")
    /\ seen_data = load_seen_funding(file)
    /\ \E c \in ClassifierContents : all_funding = << Opportunity("afcn", 1, c) >>
    /\ log = << >>
    /\ src_idx = Len(scrapers) + 1
    /\ scraper_result = Returned(<< >>)
    /\ current_ids = {}
    /\ new_matching = << >>
    /\ all_matching = << >>
    /\ notified = << >>
    /\ notification_count = 0
    /\ removed = 0
    /\ dashboard = NONE
    /\ retval = NONE

ClassifierProcess ==
    /\ pc = "c_scraped"
    /\ current_ids' = CurrentIds(all_funding)
    /\ ApplyProcess
    /\ pc' = "c_processed"
    /\ UNCHANGED << web, browser, processes, history, argv, log, now, file, src_idx, scraper_result, all_funding,
                    notified, notification_count, removed, dashboard, retval >>

\* notifier.py:65-88: what send_notification posts about the keywords: the
\* keywords of its "Prioritate ridicata" line, those of its "Relevante"
\* line (a line is left out when its list is empty), and the Priority
\* header.
Message(matched_keywords) ==
    LET \* notifier.py:86: the keywords that raise the Priority header.
        PriorityHeaderKeywords == << "educatie", "educatia", "steam", "tineret", "copii", "ong" >>
        \* notifier.py:66-70: the keywords the notification lists as high priority.
        high_priority ==
            << "educatie", "educatia", "educational", "steam", "stiinta",
               "tineret", "tineri", "copii", "elevi", "scoala", "scoli",
               "ngo", "ong", "societate civila", "cultura", "cultural" >>
    IN
    [ high     |-> SelectSeq(matched_keywords,
                             LAMBDA k : Lower(k) \in Range(high_priority)),
      medium   |-> SelectSeq(matched_keywords,
                             LAMBDA k : Lower(k) \notin Range(high_priority)),
      priority |-> IF \E i \in 1..Len(matched_keywords) :
                         Lower(matched_keywords[i]) \in Range(PriorityHeaderKeywords)
                   THEN "high" ELSE "default" ]

\* main.py:752-756 for the one item: send_notification(item,
\* item['matched_keywords']) when the item is new and matching.
ClassifierNotify ==
    /\ pc = "c_processed"
    /\ \E outcome \in SendOutcomes \ {"build_failed"} :
          /\ notified' =
                [ i \in 1..Len(new_matching) |->
                    [ id               |-> new_matching[i].id,
                      matched_keywords |-> new_matching[i].matched_keywords,
                      message          |-> Message(new_matching[i].matched_keywords),
                      returned         |-> send_notification(outcome).returned ] ]
          /\ notification_count' =
                IF send_notification(outcome).returned THEN Len(new_matching) ELSE 0
    /\ pc' = "c_notified"
    /\ UNCHANGED << web, browser, processes, history, argv, log, now, file, seen_data,
                    src_idx, scraper_result, all_funding, current_ids, new_matching,
                    all_matching, removed, dashboard, retval >>

ClassifierNext ==
    \/ ClassifierProcess
    \/ ClassifierNotify

ClassifierSpec == ClassifierInit /\ [][ClassifierNext]_vars

(***************************************************************************)
(* The date normalizer on its own: an extractor found a deadline text on a *)
(* detail page, normalizes it, and the item is classified.                 *)
(***************************************************************************)
DateInit ==
    LET DateStrings ==
            LET OtherDateStrings ==
                    { "", "maine", "31.02", "15 aprilie", "15.04/2027", "2027.04.15",
                      "15.04.27", "115.04.2027", "15.04.2027 ora 12", "15  aprilie  2027 ora 12",
                      "31 aprilie 2027 ora 12", "aprilie 2027", "15 aprilie 0000", "15.04.0000" }
                NumericDateStrings ==
                    { d \o sep \o m \o sep \o y :
                        d \in DayTexts, m \in MonthTexts, y \in YearTexts, sep \in {".", "/", "-"} }
                    \cup { y \o "-" \o m \o "-" \o d : d \in DayTexts, m \in MonthTexts, y \in YearTexts }
            IN
            NumericDateStrings \cup NamedDateStrings \cup OtherDateStrings
        \* The date normalizer of each extractor that has one.
        DateNormalizers == {"finantare_ro", "afcn", "fdsc", "fonduri_structurale"}
    IN
    /\ Apart
    /\ pc = "d_found"
    /\ argv = << "main.py" >>
    /\ log = << >>
    /\ now = 0
    /\ file = NoDatabaseFile("absent")
    /\ seen_data = load_seen_funding(file)
    /\ \E source \in DateNormalizers, date_str \in DateStrings :
          all_funding =
              << Opportunity(source, 1,
                             [ title |-> "Apel STEAM pentru elevi", description |-> "",
                               deadline |-> Some(date_str), deadline_date |-> NONE ]) >>
    /\ src_idx = 1
    /\ scraper_result = Returned(<< >>)
    /\ current_ids = {}
    /\ new_matching = << >>
    /\ all_matching = << >>
    /\ notified = << >>
    /\ notification_count = 0
    /\ removed = 0
    /\ dashboard = NONE
    /\ retval = NONE

\* result['deadline_date'] = parse_date(date_str)
ParseDeadline ==
    /\ pc = "d_found"
    /\ LET item == all_funding[1]
           r    == NormalizeDate(item.source, item.deadline[1])
       IN  /\ log' = Append(log, IF r.raised THEN "parse_date: raised"
                                             ELSE "parse_date: returned")
           /\ all_funding' = << [ item EXCEPT !.deadline_date = r.value ] >>
    /\ pc' = "d_parsed"
    /\ UNCHANGED << web, browser, processes, history, argv, now, file, seen_data, src_idx, scraper_result, current_ids,
                    new_matching, all_matching, notified, notification_count,
                    removed, dashboard, retval >>

DateClassify ==
    /\ pc = "d_parsed"
    /\ current_ids' = CurrentIds(all_funding)
    /\ ApplyProcess
    /\ pc' = "d_processed"
    /\ UNCHANGED << web, browser, processes, history, argv, log, now, file, src_idx, scraper_result, all_funding,
                    notified, notification_count, removed, dashboard, retval >>

DateNext ==
    \/ ParseDeadline
    \/ DateClassify

DateSpec == DateInit /\ [][DateNext]_vars

(***************************************************************************)
(* Whole runs: main() from its load to its return as one step, run after   *)
(* run on the same database file, with a record of what every completed    *)
(* run scraped, reported, sent and saved.                                  *)
(***************************************************************************)
\* Most runs in a sequence of whole runs.
MaxRuns == 3

\* In a sequence of whole runs the listing of AFCN changes from run to run.
WatchedScraper == 3

\* Finantare.ro lists the same matching link in every run it answers.
SteadyScraper == 1

\* What scraper i gives one run of the sequence: the watched one raises,
\* or returns no item, or the one link of its listing with some content;
\* the steady one raises or returns its link; the others list nothing.
ScraperOutcomes(i) ==
    IF i = WatchedScraper
    THEN { Raised } \cup
         { Returned(l) : l \in ExtractorResults(scrapers[i].tags, ListingUrls,
                                                ListingContents, 1) }
    ELSE IF i = SteadyScraper
         THEN { Raised } \cup
              { Returned(<< Opportunity(t, u, c) >>) :
                  t \in scrapers[i].tags, u \in ListingUrls,
                  c \in { d \in ListingContents : d.deadline # NONE } }
         ELSE { Returned(<< >>) }

\* The outcomes of all scrapers in one run.
RunScrapes ==
    { [ i \in 1..Len(scrapers) |->
          IF i = WatchedScraper THEN w
          ELSE IF i = SteadyScraper THEN s
          ELSE Returned(<< >>) ] :
        w \in ScraperOutcomes(WatchedScraper), s \in ScraperOutcomes(SteadyScraper) }

\* main.py:126-133: the loop of scrape_all_sources from scraper i on.
RECURSIVE ScrapeLoop(_, _, _)
ScrapeLoop(results, i, collected) ==
    IF i > Len(scrapers)
    THEN collected
    ELSE ScrapeLoop(results, i + 1, Extend(collected, results[i]))

\* main.py:114-135
scrape_all_sources(results) == ScrapeLoop(results, 1, << >>)

\* main.py:752-756: the notification loop, outcomes[i] being what happens
\* inside the i-th send_notification.
NotifyLoop(items, outcomes) ==
    [ i \in 1..Len(items) |->
        [ id               |-> items[i].id,
          matched_keywords |-> items[i].matched_keywords,
          returned         |-> send_notification(outcomes[i]).returned ] ]

RunsInit ==
    /\ pc = "r_idle"
    /\ argv = << "main.py" >>
    /\ now = 0
    /\ file \in { NoDatabaseFile(k) : k \in FileKinds \ {"db"} }
    /\ seen_data = load_seen_funding(NoDatabaseFile("absent"))
    /\ FreshLocals
    /\ Apart

\* main.py:732-777: one run that loads a database and returns 0. The
\* dashboard is written.
Run ==
    LET \* What a completed run leaves on record.
        RunRecord(time, results, loaded, listed, matching, new, sent, outcome) ==
            [ now      |-> time,
              outage   |-> UNION { scrapers[i].tags :
                              i \in { j \in 1..Len(scrapers) : results[j].raised } },
              loaded   |-> DOMAIN loaded,
              listed   |-> listed,
              matching |-> Ids(matching),
              new      |-> Ids(new),
              sent     |-> { sent[i].id : i \in 1..Len(sent) },
              failed   |-> { sent[i].id : i \in { j \in 1..Len(sent) : ~sent[j].returned } },
              saved    |-> outcome = "written" ]
    IN
    /\ pc \in {"r_idle", "r_done", "r_crashed"}
    /\ now < MaxRuns
    /\ now' = now + 1
    /\ load_seen_funding(file).shape = "database"
    /\ \E results \in RunScrapes :
          /\ scraper_result' = results[Len(scrapers)]
          /\ all_funding' = scrape_all_sources(results)
          /\ current_ids' = CurrentIds(all_funding')
          /\ LET r == process_funding(all_funding', load_seen_funding(file).funding, now')
             IN  /\ new_matching' = r.new_matching
                 /\ all_matching' = r.all_matching
                 /\ LET c == cleanup_old_funding(r.funding, current_ids')
                    IN  /\ removed' = c.removed
                        /\ seen_data' = [ shape        |-> "database",
                                          funding      |-> c.funding,
                                          last_updated |-> Some(now') ]
          /\ \E outcomes \in [ 1..Len(new_matching') -> SendOutcomes ] :
                notified' = NotifyLoop(ToNotify(new_matching', all_matching'), outcomes)
          /\ notification_count' =
                 Cardinality({ i \in 1..Len(notified') : notified'[i].returned })
          /\ \E outcome \in SaveOutcomes :
                /\ file' = save_seen_funding(file, seen_data', outcome)
                /\ history' = Append(history,
                                     RunRecord(now', results, load_seen_funding(file).funding,
                                               Ids(all_funding'), all_matching', new_matching',
                                               notified', outcome))
    /\ dashboard' = Some(generate_dashboard(all_matching', now'))
    /\ src_idx' = Len(scrapers) + 1
    /\ retval' = Some(0)
    /\ pc' = "r_done"
    /\ UNCHANGED << argv, log, web, browser, processes >>

\* main.py:738-739: one run that loads a document without a 'funding'
\* mapping and ends with the KeyError.
RunCrashes ==
    /\ pc \in {"r_idle", "r_done", "r_crashed"}
    /\ now < MaxRuns
    /\ now' = now + 1
    /\ load_seen_funding(file).shape # "database"
    /\ seen_data' = load_seen_funding(file)
    /\ src_idx' = 1
    /\ scraper_result' = Returned(<< >>)
    /\ all_funding' = << >>
    /\ current_ids' = {}
    /\ new_matching' = << >>
    /\ all_matching' = << >>
    /\ notified' = << >>
    /\ notification_count' = 0
    /\ removed' = 0
    /\ dashboard' = NONE
    /\ retval' = NONE
    /\ pc' = "r_crashed"
    /\ UNCHANGED << argv, log, file, web, browser, processes, history >>

RunsNext ==
    \/ Run
    \/ RunCrashes

RunsSpec == RunsInit /\ [][RunsNext]_vars

(***************************************************************************)
(* One extractor on its own: scrape() of one source on a site.             *)
(***************************************************************************)
ExtractInit ==
    LET \* The sites extractor i may meet: one of its listing URLs answers, and
        \* every detail fetch fails or answers.
        Sites(i) ==
            LET Listing(anchors) == [ failed |-> FALSE, anchors |-> anchors ]
                \* A listing page that could not be fetched or parsed: the except clauses
                \* of the loop over the listing URLs log it and go on.
                FetchFailed == [ failed |-> TRUE, anchors |-> << >> ]
            IN
            { [ listings |-> [ n \in 1..Len(sites[i]) |->
                                 IF n = p THEN Listing(l) ELSE FetchFailed ],
                fetched  |-> f ] :
                p \in 1..Len(sites[i]),
                l \in AnchorLists(MaxAnchors),
                f \in [ 1..MaxAnchors -> DetailFailures \cup DetailPages ] }
    IN
    /\ pc = "x_fetch"
    /\ argv = << "main.py" >>
    /\ log = << >>
    /\ now = 0
    /\ file = NoDatabaseFile("absent")
    /\ seen_data = load_seen_funding(NoDatabaseFile("absent"))
    /\ src_idx \in 1..Len(scrapers)
    /\ web \in Sites(src_idx)
    /\ scraper_result = Returned(<< >>)
    /\ all_funding = << >>
    /\ current_ids = {}
    /\ new_matching = << >>
    /\ all_matching = << >>
    /\ notified = << >>
    /\ notification_count = 0
    /\ removed = 0
    /\ dashboard = NONE
    /\ retval = NONE
    /\ browser = NoBrowser
    /\ processes = NoProcesses
    /\ history = NoHistory

\* main.py:129: items = scraper()
Scrape ==
    /\ pc = "x_fetch"
    /\ log' = Append(log, "scraper")
    /\ scraper_result' = scrape(src_idx, web)
    /\ pc' = "x_returned"
    /\ UNCHANGED << argv, now, file, seen_data, src_idx, all_funding, current_ids,
                    new_matching, all_matching, notified, notification_count,
                    removed, dashboard, retval, web, browser, processes, history >>

ExtractNext == Scrape

ExtractSpec == ExtractInit /\ [][ExtractNext]_vars

(***************************************************************************)
(* Two processes of main() started side by side on the same database file. *)
(* Each loads, then scrapes, classifies, notifies and prunes in its own    *)
(* memory, then saves; the steps of the two interleave freely.             *)
(***************************************************************************)
Procs == {1, 2}

ConcurrentInit ==
    LET \* The database file an earlier run left: none, or one with a record of
        \* the link Finantare.ro lists.
        EarlierFiles ==
            { NoDatabaseFile("absent") } \cup
            { save_seen_funding(NoDatabaseFile("absent"),
                                [ funding      |-> process_funding(r.jobs, EmptyFunding, 0).funding,
                                  last_updated |-> Some(0) ],
                                "written") :
                r \in { o \in ScraperOutcomes(SteadyScraper) : ~o.raised } }
        \* The locals of a process that has not started.
        NotStarted ==
            [ pc           |-> "idle",
              now          |-> 0,
              loaded       |-> {},
              seen_data    |-> load_seen_funding(NoDatabaseFile("absent")),
              all_funding  |-> << >>,
              current_ids  |-> {},
              new_matching |-> << >>,
              all_matching |-> << >>,
              notified     |-> << >>,
              removed      |-> 0 ]
    IN
    /\ pc = "side_by_side"
    /\ argv = << "main.py" >>
    /\ now = 0
    /\ file \in EarlierFiles
    /\ seen_data = load_seen_funding(NoDatabaseFile("absent"))
    /\ FreshLocals
    /\ web = NoWeb
    /\ browser = NoBrowser
    /\ history = NoHistory
    /\ processes = [ p \in Procs |-> NotStarted ]

\* main.py:738-739 in process p.
ProcLoad(p) ==
    /\ processes[p].pc = "idle"
    /\ now' = now + 1
    /\ log' = Append(log, [ proc |-> p, call |-> "load_seen_funding" ])
    /\ LET loaded == load_seen_funding(file)
       IN  processes' = [ processes EXCEPT
                            ![p].pc        = IF loaded.shape = "database"
                                             THEN "loaded" ELSE "crashed",
                            ![p].now       = now',
                            ![p].loaded    = DOMAIN loaded.funding,
                            ![p].seen_data = loaded ]
    /\ UNCHANGED << pc, argv, file, seen_data, src_idx, scraper_result, all_funding,
                    current_ids, new_matching, all_matching, notified,
                    notification_count, removed, dashboard, retval, web,
                    browser, history >>

\* main.py:741-758 in process p: scrape, classify, notify, prune.
ProcWork(p) ==
    /\ processes[p].pc = "loaded"
    /\ log' = Append(log, [ proc |-> p, call |-> "process_funding" ])
    /\ \E results \in RunScrapes :
          LET me    == processes[p]
              items == scrape_all_sources(results)
              r     == process_funding(items, me.seen_data.funding, me.now)
              c     == cleanup_old_funding(r.funding, CurrentIds(items))
          IN  \E outcomes \in [ 1..Len(r.new_matching) -> SendOutcomes ] :
                processes' = [ processes EXCEPT
                    ![p].pc           = "cleaned",
                    ![p].all_funding  = items,
                    ![p].current_ids  = CurrentIds(items),
                    ![p].new_matching = r.new_matching,
                    ![p].all_matching = r.all_matching,
                    ![p].notified     = NotifyLoop(ToNotify(r.new_matching, r.all_matching),
                                                   outcomes),
                    ![p].removed      = c.removed,
                    ![p].seen_data    = [ me.seen_data EXCEPT !.funding = c.funding ] ]
    /\ UNCHANGED << pc, argv, now, file, seen_data, src_idx, scraper_result, all_funding,
                    current_ids, new_matching, all_matching, notified,
                    notification_count, removed, dashboard, retval, web,
                    browser, history >>

\* main.py:762-777 in process p.
ProcSave(p) ==
    /\ processes[p].pc = "cleaned"
    /\ log' = Append(log, [ proc |-> p, call |-> "save_seen_funding" ])
    /\ LET data == [ processes[p].seen_data EXCEPT !.last_updated = Some(processes[p].now) ]
       IN  /\ \E outcome \in SaveOutcomes :
                 file' = save_seen_funding(file, data, outcome)
           /\ processes' = [ processes EXCEPT ![p].pc = "done", ![p].seen_data = data ]
    /\ UNCHANGED << pc, argv, now, seen_data, src_idx, scraper_result, all_funding,
                    current_ids, new_matching, all_matching, notified,
                    notification_count, removed, dashboard, retval, web,
                    browser, history >>

ConcurrentNext ==
    \E p \in Procs :
        \/ ProcLoad(p)
        \/ ProcWork(p)
        \/ ProcSave(p)

ConcurrentSpec == ConcurrentInit /\ [][ConcurrentNext]_vars

(***************************************************************************)
(* The dashboard in a browser: the script of docs/index.html, with the     *)
(* lists it keeps in localStorage.                                         *)
(***************************************************************************)
\* Array.prototype.includes, and filter(id => id !== jobId).
includes(list, x) == \E i \in 1..Len(list) : list[i] = x

Without(list, jobId) == SelectSeq(list, LAMBDA id : id # jobId)

\* Faulty variant, for sensitivity of the properties below: the id stays
\* on the other list.
markApplied_push(lists, jobId) ==
    IF ~includes(lists.applied, jobId)
    THEN [ applied |-> Append(lists.applied, jobId), irrelevant |-> lists.irrelevant ]
    ELSE lists

\* main.py:633-640
markApplied(lists, jobId) ==
    IF ~includes(lists.applied, jobId)
    THEN [ applied    |-> Append(lists.applied, jobId),
           irrelevant |-> Without(lists.irrelevant, jobId) ]
    ELSE lists

\* main.py:642-649
markIrrelevant(lists, jobId) ==
    IF ~includes(lists.irrelevant, jobId)
    THEN [ applied    |-> Without(lists.applied, jobId),
           irrelevant |-> Append(lists.irrelevant, jobId) ]
    ELSE lists

\* main.py:651-659
undoJob(lists, jobId, listType) ==
    IF listType = "applied"
    THEN [ applied |-> Without(lists.applied, jobId), irrelevant |-> lists.irrelevant ]
    ELSE [ applied |-> lists.applied, irrelevant |-> Without(lists.irrelevant, jobId) ]

\* main.py:661-664: the jobs render() puts on each of the three lists.
render(allJobs, lists) ==
    [ main       |-> SelectSeq(allJobs, LAMBDA j : /\ ~includes(lists.applied, j.id)
                                                   /\ ~includes(lists.irrelevant, j.id)),
      applied    |-> SelectSeq(allJobs, LAMBDA j : includes(lists.applied, j.id)),
      irrelevant |-> SelectSeq(allJobs, LAMBDA j : includes(lists.irrelevant, j.id)) ]

\* const allJobs = {funding_json}
allJobs == dashboard[1].funding

\* The page is opened: its script has set its variables, and nothing is
\* stored for it yet.
MarksInit ==
    LET \* The dashboards a run may have written: those of at most MaxItems
        \* matching items of AFCN.
        MarkedItems ==
            ExtractorResults({"afcn"}, Urls, { c \in Contents : match_keywords(c) # << >> }, MaxItems)
        \* "let applied = []; let irrelevant = [];", and getItem(...) || '[]'.
        NoMarks == [ applied |-> << >>, irrelevant |-> << >> ]
    IN
    /\ pc = "m_opened"
    /\ argv = << "main.py" >>
    /\ log = << >>
    /\ now = 0
    /\ file = NoDatabaseFile("absent")
    /\ seen_data = load_seen_funding(NoDatabaseFile("absent"))
    /\ src_idx = Len(scrapers) + 1
    /\ scraper_result = Returned(<< >>)
    /\ all_funding \in MarkedItems
    /\ current_ids = CurrentIds(all_funding)
    /\ new_matching = process_funding(all_funding, EmptyFunding, now).new_matching
    /\ all_matching = process_funding(all_funding, EmptyFunding, now).all_matching
    /\ notified = << >>
    /\ notification_count = 0
    /\ removed = 0
    /\ dashboard = Some(generate_dashboard(all_matching, now))
    /\ retval = Some(0)
    /\ web = NoWeb
    /\ processes = NoProcesses
    /\ history = NoHistory
    /\ browser = [ storage |-> NoMarks,
                   lists   |-> NoMarks,
                   shown   |-> [ main |-> << >>, applied |-> << >>, irrelevant |-> << >> ],
                   call    |-> [ fn |-> "", id |-> NONE, listType |-> "", was_on |-> "" ] ]

\* main.py:570-574: loadState(), when the page is opened or reloaded.
LoadState ==
    /\ pc \in {"m_opened", "m_ready"}
    /\ browser' = [ browser EXCEPT
                      !.lists = browser.storage,
                      !.shown = render(allJobs, browser.storage),
                      !.call  = [ fn |-> "loadState", id |-> NONE,
                                  listType |-> "", was_on |-> "" ] ]
    /\ pc' = "m_ready"
    /\ UNCHANGED << argv, log, now, file, seen_data, src_idx, scraper_result, all_funding,
                    current_ids, new_matching, all_matching, notified,
                    notification_count, removed, dashboard, retval, web, processes,
                    history >>

\* What a call that changes the lists does next: saveState() and render().
SaveAndRender(fn, jobId, listType, lists) ==
    LET \* The list of the page the job id was on.
        was_on == IF includes(browser.lists.applied, jobId) THEN "applied"
                  ELSE IF includes(browser.lists.irrelevant, jobId) THEN "irrelevant"
                  ELSE "main"
    IN
    browser' = [ browser EXCEPT
                   !.lists   = lists,
                   !.storage = IF lists # browser.lists \/ fn = "undoJob"
                               THEN lists ELSE @,
                   !.shown   = IF lists # browser.lists \/ fn = "undoJob"
                               THEN render(allJobs, lists) ELSE @,
                   !.call    = [ fn |-> fn, id |-> Some(jobId), listType |-> listType,
                                 was_on |-> was_on ] ]

\* A call of markApplied, markIrrelevant or undoJob with the id of an
\* embedded job.
MarkApplied ==
    /\ pc = "m_ready"
    /\ \E jobId \in Ids(allJobs) :
          SaveAndRender("markApplied", jobId, "", markApplied(browser.lists, jobId))
    /\ UNCHANGED << pc, argv, log, now, file, seen_data, src_idx, scraper_result,
                    all_funding, current_ids, new_matching, all_matching, notified,
                    notification_count, removed, dashboard, retval, web, processes,
                    history >>

MarkIrrelevant ==
    /\ pc = "m_ready"
    /\ \E jobId \in Ids(allJobs) :
          SaveAndRender("markIrrelevant", jobId, "", markIrrelevant(browser.lists, jobId))
    /\ UNCHANGED << pc, argv, log, now, file, seen_data, src_idx, scraper_result,
                    all_funding, current_ids, new_matching, all_matching, notified,
                    notification_count, removed, dashboard, retval, web, processes,
                    history >>

UndoJob ==
    /\ pc = "m_ready"
    /\ \E jobId \in Ids(allJobs), listType \in {"applied", "irrelevant"} :
          SaveAndRender("undoJob", jobId, listType, undoJob(browser.lists, jobId, listType))
    /\ UNCHANGED << pc, argv, log, now, file, seen_data, src_idx, scraper_result,
                    all_funding, current_ids, new_matching, all_matching, notified,
                    notification_count, removed, dashboard, retval, web, processes,
                    history >>

MarksNext ==
    \/ LoadState
    \/ MarkApplied
    \/ MarkIrrelevant
    \/ UndoJob

MarksSpec == MarksInit /\ [][MarksNext]_vars

(***************************************************************************)
(* Properties.                                                             *)
(***************************************************************************)
\* The database the run started from: the file is not rewritten before
\* the save.
LoadedFunding == load_seen_funding(file).funding

Matching(item) == match_keywords(item) # << >>

\* entry is the scraped item, whatever the classifier added to it.
SameItem(entry, item) ==
    /\ entry.id = item.id
    /\ entry.title = item.title
    /\ entry.url = item.url
    /\ entry.source = item.source
    /\ entry.description = item.description
    /\ entry.deadline = item.deadline

DistinctIds(list) ==
    \A i, j \in 1..Len(list) : list[i].id = list[j].id => i = j

\* The i-th scraped item matches and its id is a key neither of the loaded
\* database nor made one by an earlier item of the list.
FirstSighting(i) ==
    /\ Matching(all_funding[i])
    /\ all_funding[i].id \notin DOMAIN LoadedFunding
    /\ \A j \in 1..(i - 1) :
          Matching(all_funding[j]) => all_funding[j].id # all_funding[i].id

NewIndices ==
    SelectSeq([ i \in 1..Len(all_funding) |-> i ], LAMBDA i : FirstSighting(i))

\* C1: process_funding reports an item as new and stores a record
\* {first_seen, title, url, source, deadline, matched_keywords} under its id
\* exactly when the item matches a keyword and its id is not yet a key of
\* the database; from an empty database and matching items of distinct ids
\* every item is new and the database has exactly their ids.
C1_NewItemDetection ==
    pc = "t_processed" =>
        /\ Len(new_matching) = Len(NewIndices)
        /\ \A k \in 1..Len(NewIndices) :
              LET item == all_funding[NewIndices[k]]
              IN  /\ SameItem(new_matching[k], item)
                  /\ item.id \in DOMAIN seen_data.funding
                  /\ seen_data.funding[item.id] =
                        [ first_seen       |-> now,
                          title            |-> item.title,
                          url              |-> item.url,
                          source           |-> item.source,
                          deadline         |-> item.deadline,
                          matched_keywords |-> match_keywords(item) ]
        /\ DOMAIN seen_data.funding =
              DOMAIN LoadedFunding \cup
                  { all_funding[NewIndices[k]].id : k \in 1..Len(NewIndices) }
        /\ ( /\ LoadedFunding = EmptyFunding
             /\ DistinctIds(all_funding)
             /\ \A i \in 1..Len(all_funding) : Matching(all_funding[i]) )
           => /\ Len(new_matching) = Len(all_funding)
              /\ DOMAIN seen_data.funding = Ids(all_funding)
              /\ Cardinality(DOMAIN seen_data.funding) = Len(all_funding)

\* Two matching items of distinct ids were processed against an empty
\* database.
C1_Witness ==
    /\ pc = "t_processed"
    /\ LoadedFunding = EmptyFunding
    /\ Len(all_funding) = MaxItems
    /\ DistinctIds(all_funding)
    /\ Len(new_matching) = Len(all_funding)

\* C2: a second run of the tracker on the same scraped items and the
\* database the first run left reports no new item, prunes nothing and
\* leaves every key and record of funding as it was.
C2_Idempotent ==
    [][ (now > 1 /\ pc \in {"t_scraped", "t_processed"}) =>
            /\ seen_data'.funding = seen_data.funding
            /\ new_matching' = << >>
            /\ removed' = 0 ]_vars

\* A second run ended, on matching items whose records the first run stored.
C2_Witness ==
    /\ pc = "t_cleaned"
    /\ now > 1
    /\ all_matching # << >>
    /\ Ids(all_matching) \subseteq DOMAIN seen_data.funding

\* The lists with the items of list in every order.
Reordered(list) ==
    { [ i \in 1..Len(list) |-> list[p[i]] ] : p \in Permutations(1..Len(list)) }

\* A record without its first_seen timestamp.
Snapshot(funding) ==
    [ k \in DOMAIN funding |->
        [ title            |-> funding[k].title,
          url              |-> funding[k].url,
          source           |-> funding[k].source,
          deadline         |-> funding[k].deadline,
          matched_keywords |-> funding[k].matched_keywords ] ]

\* The tracker run on list and funding gives the new ids and the snapshots
\* the state holds.
SameTrackerResult(list, funding) ==
    LET r == process_funding(list, funding, now)
        c == cleanup_old_funding(r.funding, CurrentIds(list))
    IN  /\ Ids(r.new_matching) = Ids(new_matching)
        /\ Snapshot(c.funding) = Snapshot(seen_data.funding)

\* C3 as stated: for every list of items, every order of the list gives
\* the same new ids and the same funding mapping, first_seen aside.
C3_OrderIndependentAnyList ==
    pc = "t_cleaned" =>
        \A list \in Reordered(all_funding) : SameTrackerResult(list, LoadedFunding)

\* C3, amended: for every list of items with pairwise distinct ids, every
\* order of the list gives the same new ids and the same funding mapping,
\* first_seen aside.
C3_OrderIndependentDistinctIds ==
    (pc = "t_cleaned" /\ DistinctIds(all_funding)) =>
        \A list \in Reordered(all_funding) : SameTrackerResult(list, LoadedFunding)

\* The tracker ran on two new matching items of distinct ids.
C3_Witness ==
    /\ pc = "t_cleaned"
    /\ Len(all_funding) > 1
    /\ DistinctIds(all_funding)
    /\ Len(new_matching) > 1

\* C4: a matching item whose id is already a key of the database leaves the
\* stored record as it was, whatever the item's current title, deadline or
\* keywords, and is not reported as new.
C4_SeenRecordImmutable ==
    pc = "t_processed" =>
        \A i \in 1..Len(all_funding) :
            LET item == all_funding[i]
            IN  (Matching(item) /\ item.id \in DOMAIN LoadedFunding) =>
                    /\ item.id \in DOMAIN seen_data.funding
                    /\ seen_data.funding[item.id] = LoadedFunding[item.id]
                    /\ \A k \in 1..Len(new_matching) :
                          new_matching[k].id # item.id

\* A matching item was re-observed with a title and keywords other than
\* the stored ones.
C4_Witness ==
    /\ pc = "t_processed"
    /\ \E i \in 1..Len(all_funding) :
          LET item == all_funding[i]
          IN  /\ Matching(item)
              /\ item.id \in DOMAIN LoadedFunding
              /\ LoadedFunding[item.id].title # item.title
              /\ LoadedFunding[item.id].matched_keywords # match_keywords(item)

\* C5: cleanup_old_funding deletes exactly the keys whose id no item
\* scraped in this run has, matching or not; the other keys keep their
\* records, and the count returned is the number of keys deleted.
C5_Pruning ==
    [][ (pc = "notify" /\ pc' = "cleaned") =>
            LET before == seen_data.funding
                after  == seen_data'.funding
            IN  /\ DOMAIN after = { k \in DOMAIN before : k \in Ids(all_funding) }
                /\ \A k \in DOMAIN after : after[k] = before[k]
                /\ removed' = Cardinality(DOMAIN before \ DOMAIN after) ]_vars

\* One key was pruned, and a key whose item matches nothing in this run
\* was kept.
C5_Witness ==
    /\ pc = "cleaned"
    /\ removed = 1
    /\ \E k \in DOMAIN seen_data.funding : k \notin Ids(all_matching)

\* Some scraped item of this run has id k / matches and has id k.
Listed(k) == \E i \in 1..Len(all_funding) : all_funding[i].id = k

ListedMatching(k) ==
    \E i \in 1..Len(all_funding) :
        all_funding[i].id = k /\ Matching(all_funding[i])

\* C6 as stated: after every completed run every key of funding is the id
\* of an item scraped in that run that matches in that run.
C6_KeysListedAndMatchingNow ==
    pc = "done" => \A k \in DOMAIN seen_data.funding : ListedMatching(k)

\* C6, amended: after every completed run every key of funding is the id
\* of an item scraped in that run, and its record was stored when an item
\* of that id matched, in that run or in an earlier one; the item need not
\* match in that run.
C6_KeysListedMatchedOnce ==
    pc = "done" =>
        \A k \in DOMAIN seen_data.funding :
            /\ Listed(k)
            /\ seen_data.funding[k].matched_keywords # << >>
            /\ ListedMatching(k) \/ seen_data.funding[k].first_seen < now

\* A run ended with a key whose item matches no keyword in that run.
C6_Witness ==
    /\ pc = "done"
    /\ \E k \in DOMAIN seen_data.funding : Listed(k) /\ ~ListedMatching(k)

\* The pipeline is past the pruning: seen_data.funding is what the save
\* writes.
Pruned == pc \in {"cleaned", "saved", "rendered", "done"}

\* The scraped item is none of the matching items and was not notified.
NotMatchedNorNotified(item) ==
    /\ \A k \in 1..Len(all_matching) : ~SameItem(all_matching[k], item)
    /\ \A k \in 1..Len(notified) :
          notified[k].id = item.id => ListedMatching(item.id)

\* C7 as stated: an item that matches no keyword is not among the matching
\* items, is not notified, and the database saved by the run has no record
\* under its id.
C7_NoRecordUnderItsId ==
    Pruned =>
        \A i \in 1..Len(all_funding) :
            ~Matching(all_funding[i]) =>
                /\ NotMatchedNorNotified(all_funding[i])
                /\ all_funding[i].id \notin DOMAIN seen_data.funding

\* C7, amended: an item that matches no keyword is not among the matching
\* items, is not notified, and no record is stored for it: a record under
\* its id in the database saved by the run was stored by an earlier run, or
\* in this run for a matching item of the same id.
C7_NoRecordStoredForIt ==
    Pruned =>
        \A i \in 1..Len(all_funding) :
            ~Matching(all_funding[i]) =>
                /\ NotMatchedNorNotified(all_funding[i])
                /\ all_funding[i].id \in DOMAIN seen_data.funding =>
                      \/ seen_data.funding[all_funding[i].id].first_seen < now
                      \/ ListedMatching(all_funding[i].id)

\* A run pruned the database and kept the record of an item that matches
\* no keyword in this run.
C7_Witness ==
    /\ Pruned
    /\ \E i \in 1..Len(all_funding) :
          /\ ~Matching(all_funding[i])
          /\ all_funding[i].id \in DOMAIN seen_data.funding

\* C8: whatever the condition of the database file at the start of a run,
\* the run goes on with the empty database and does not crash.
C8_LoadTolerant ==
    /\ pc # "crashed"
    /\ (pc = "scrape" /\ file.kind # "db") =>
          /\ seen_data.funding = EmptyFunding
          /\ seen_data.last_updated = NONE

\* C9: every execution of main ends with return value 0.
C9_ReturnsZero == pc \in {"done", "crashed"} => retval = Some(0)

\* C10: a scraper that raises adds nothing and takes nothing away; the
\* next scraper is called all the same, up to the last one, and a scraper
\* that returns has its jobs appended after those of the earlier ones.
C10_SourceIsolation ==
    [][ pc = "scrape" =>
            /\ src_idx' = src_idx + 1
            /\ pc' = IF src_idx < Len(scrapers) THEN "scrape" ELSE "scraped"
            /\ scraper_result'.raised => all_funding' = all_funding
            /\ ~scraper_result'.raised =>
                  all_funding' = all_funding \o scraper_result'.jobs ]_vars

\* A scraper raised after an earlier one returned jobs, with scrapers
\* still to call.
C10_Witness ==
    /\ pc = "scrape"
    /\ scraper_result.raised
    /\ all_funding # << >>
    /\ src_idx <= Len(scrapers)

\* What the run writes as funding when the save succeeds, worked out from
\* the scraped items and the loaded database alone.
PersistedWhateverWasSent ==
    cleanup_old_funding(process_funding(all_funding, LoadedFunding, now).funding,
                        CurrentIds(all_funding)).funding

\* C11: a send_notification that fails answers False and raises nothing:
\* the loop goes on to the next new item, no failure touches the database
\* or its file, the database the run saves is the one it would save had
\* every notification been delivered, and the run returns 0.
C11_NotificationFailureContained ==
    [][ /\ (pc = "notify" /\ Len(notified) < Len(new_matching)) =>
              /\ pc' = "notify"
              /\ Len(notified') = Len(notified) + 1
              /\ notified'[Len(notified')].id = new_matching[Len(notified')].id
              /\ notification_count' =
                    notification_count +
                        (IF notified'[Len(notified')].returned THEN 1 ELSE 0)
              /\ seen_data' = seen_data
              /\ file' = file
        /\ (pc = "cleaned" /\ file'.kind = "db" /\ file' # file) =>
              /\ file'.data.funding = PersistedWhateverWasSent
              /\ file'.data.last_updated = Some(now)
        /\ pc = "rendered" => (pc' = "done" /\ retval' = Some(0)) ]_vars

\* A run ended and saved after its first notification failed and its
\* second was sent.
C11_Witness ==
    /\ pc = "done"
    /\ retval = Some(0)
    /\ file.kind = "db"
    /\ Len(notified) = 2
    /\ ~notified[1].returned
    /\ notified[2].returned
    /\ notification_count = 1

\* C12: in each run send_notification is called exactly once for every new
\* item (a matching item whose id was not a key of the database when it was
\* processed), in their order and with the item's matched keywords, and for
\* no other item.
C12_NotifiedExactlyNewItems ==
    pc \in {"notify", "cleaned"} =>
        /\ Len(notified) <= Len(NewIndices)
        /\ pc = "cleaned" => Len(notified) = Len(NewIndices)
        /\ \A k \in 1..Len(notified) :
              LET item == all_funding[NewIndices[k]]
              IN  /\ notified[k].id = item.id
                  /\ notified[k].matched_keywords = match_keywords(item)
                  /\ notified[k].matched_keywords # << >>
        /\ \A j, k \in 1..Len(notified) : notified[j].id = notified[k].id => j = k

\* The notification loop ended: a new item was notified, and a matching
\* item whose id the database already had was not.
C12_Witness ==
    /\ pc = "cleaned"
    /\ Len(notified) = 1
    /\ \E i \in 1..Len(all_funding) :
          /\ Matching(all_funding[i])
          /\ all_funding[i].id \in DOMAIN LoadedFunding
          /\ all_funding[i].id # notified[1].id

\* C13: when writing the database file fails, save_seen_funding raises
\* nothing, the next run loads what the file held before, the dashboard is
\* rendered from this run's matching items and main returns 0.
C13_SaveFailureSwallowed ==
    [][ /\ (pc = "cleaned" /\ file' # DatabaseFile([ funding |-> seen_data'.funding,
                                                     last_updated |-> seen_data'.last_updated ])) =>
              /\ pc' = "saved"
              /\ load_seen_funding(file').funding = load_seen_funding(file).funding
        /\ pc = "saved" =>
              /\ pc' = "rendered"
              /\ dashboard' \in {NONE, Some(generate_dashboard(all_matching, now))}
        /\ pc = "rendered" => (pc' = "done" /\ retval' = Some(0)) ]_vars

\* The first argument is the test-notification flag.
FlagGiven == Len(argv) > 1 /\ argv[2] = "--test-notify"

\* C14: started with the test-notification flag, the program sends one
\* test notification and exits with 0 if it was delivered and 1 if not; it
\* loads nothing, scrapes nothing, notifies no item, writes no dashboard
\* and leaves the database file as it was.
C14_TestMode ==
    [][ /\ (pc' \in {"load", "test"}) => (pc' = "test" <=> FlagGiven')
        /\ pc = "test" =>
              /\ pc' = "exited"
              /\ log' \in { << "send_test_notification: sent" >>,
                            << "send_test_notification: failed" >> }
              /\ retval' = Some(IF log'[1] = "send_test_notification: sent"
                                THEN 0 ELSE 1)
              /\ file' = file
              /\ all_funding' = << >>
              /\ notified' = << >>
              /\ dashboard' = NONE
        /\ pc = "exited" => pc' \in {"load", "test"} ]_vars

\* The test notification failed, and the process exited with 1 next to a
\* database saved by an earlier run.
C14_Witness ==
    /\ pc = "exited"
    /\ retval = Some(1)
    /\ file.kind = "db"
    /\ file.data.funding # EmptyFunding

\* The number of entries of log that are call.
Calls(call) == Cardinality({ i \in 1..Len(log) : log[i] = call })

\* Every entry of log that is one of earlier comes before every entry that
\* is one of later.
Before(earlier, later) ==
    \A i, j \in 1..Len(log) : (log[i] \in earlier /\ log[j] \in later) => i < j

\* The calls of log are in the order of a pipeline run, and a run that has
\* ended has loaded once and saved once.
LoadedAndSavedOnceInOrder ==
    /\ Before({"load_seen_funding"}, {"scraper"})
    /\ Before({"process_funding", "send_notification", "cleanup_old_funding"},
              {"save_seen_funding"})
    /\ Before({"save_seen_funding"}, {"generate_dashboard"})
    /\ (pc \in {"done", "crashed"}) =>
          /\ Calls("load_seen_funding") = 1
          /\ Calls("save_seen_funding") = 1

\* C20: in every pipeline run the database is loaded once, before any
\* scraper is called, and saved once, after the insertions, every
\* notification and the pruning and before the dashboard is rendered; the
\* database is not changed after the save.
C20_RunOrdering ==
    []LoadedAndSavedOnceInOrder /\
    [][ (pc \in {"saved", "rendered"}) => (seen_data' = seen_data) ]_vars

\* The item handed to the classifier, and what process_funding made of it.
ClassifiedItem == all_funding[1]

ClassifiedKeywords ==
    IF all_matching = << >> THEN << >> ELSE all_matching[1].matched_keywords

\* C15: a matching item is high priority exactly when one of its matched
\* keywords is of the high-priority tier; with matched keywords of the
\* medium tier only it is not.
C15_HighPriorityIffHighTier ==
    \A k \in 1..Len(all_matching) :
        LET entry == all_matching[k]
            tiers == Range(entry.matched_keywords)
        IN  /\ entry.is_high_priority <=>
                  (tiers \cap Range(HIGH_PRIORITY_KEYWORDS) # {})
            /\ (tiers # {} /\ tiers \subseteq Range(MEDIUM_PRIORITY_KEYWORDS)) =>
                  ~entry.is_high_priority

\* An item whose only matched keyword is of the medium tier was classified
\* as not high priority.
C15_Witness ==
    /\ pc = "c_processed"
    /\ all_matching # << >>
    /\ ClassifiedItem.title = "Festival local"
    /\ ClassifiedKeywords = << "cultural" >>
    /\ ~all_matching[1].is_high_priority

\* C16: closing_soon is true exactly when now <= deadline_date <= now + 14
\* days, both ends included, and false without a deadline_date.
C16_ClosingSoonWindow ==
    (pc = "c_processed" /\ all_matching # << >>) =>
        LET d == ClassifiedItem.deadline_date
        IN  all_matching[1].closing_soon <=>
                /\ d # NONE
                /\ now <= d[1]
                /\ d[1] <= now + ClosingSoonDays * HoursPerDay

\* 00:00 of the day the hour h falls on.
Midnight(h) == (h \div HoursPerDay) * HoursPerDay

\* C17: at every hour of the day of the run, a deadline at 00:00 of the
\* day 14 days after now is closing soon, a deadline on the day 15 days
\* after now is not, and a deadline of yesterday is not.
C17_ClosingSoonBoundaries ==
    (pc = "c_processed" /\ all_matching # << >> /\ ClassifiedItem.deadline_date # NONE) =>
        LET d == ClassifiedItem.deadline_date[1]
            closing_soon == all_matching[1].closing_soon
        IN  /\ d = Midnight(now + ClosingSoonDays * HoursPerDay) => closing_soon
            /\ d = Midnight(now + (ClosingSoonDays + 1) * HoursPerDay) => ~closing_soon
            /\ Midnight(d) = Midnight(now) - HoursPerDay => ~closing_soon

\* keyword stands in text with no word character right before it and none
\* right after it.
Standalone(keyword, text) ==
    \E i \in 1..(Len(text) - Len(keyword) + 1) :
        LET last == i + Len(keyword) - 1
        IN  /\ SubSeq(text, i, last) = keyword
            /\ i = 1 \/ ~IsWordChar(CharAt(text, i - 1))
            /\ last = Len(text) \/ ~IsWordChar(CharAt(text, last + 1))

\* The keywords standing alone in each sample text, letter case aside.
StandaloneKeywords ==
    { << t, { keyword \in Range(ALL_KEYWORDS) :
                Standalone(keyword, Lower(t[1] \o " " \o t[2])) } >> :
        t \in SampleTexts }

\* C18: match_keywords returns a keyword exactly when it stands in
\* title + ' ' + description between word boundaries, letter case aside:
\* "ong" is not found in "prelungire", "long" or "ongoing", and is found
\* standing alone as "ONG", "Ong" or "ong".
C18_WholeWordMatching ==
    pc = "c_processed" =>
        LET text == << ClassifiedItem.title, ClassifiedItem.description >>
        IN  /\ << text, Range(ClassifiedKeywords) >> \in StandaloneKeywords
            /\ text[1] \in {"Anunt general prelungire", "Long term plan"} =>
                  ClassifiedKeywords = << >>
            /\ text[1] \in {"Sprijin pentru ONG", "Un Ong local", "Retea de ong-uri"} =>
                  ClassifiedKeywords = << "ong" >>
            /\ text[1] = "Sprijin societate" =>
                  ClassifiedKeywords = << "societate civila" >>
            /\ text[1] = "Program nonformal_2026" => ClassifiedKeywords = << >>

\* A text with "ong" inside a longer word only was classified and matched
\* nothing.
C18_Witness ==
    /\ pc = "c_processed"
    /\ ClassifiedItem.title = "Anunt general prelungire"
    /\ all_matching = << >>

\* The numbers day, month, year are no date of the calendar.
NoCalendarDate(day, month, year) ==
    LET length == CASE month \in {4, 6, 9, 11} -> 30
                    [] month = 2 ->
                         IF year % 4 = 0 /\ (year % 100 # 0 \/ year % 400 = 0)
                         THEN 29 ELSE 28
                    [] OTHER -> 31
    IN  ~(month \in 1..12 /\ day >= 1 /\ day <= length)

MonthNumber(name) ==
    CASE name = "februarie" -> 2 [] name = "Aprilie" -> 4 [] name = "mai" -> 5
      [] name = "decembrie" -> 12 [] OTHER -> 0

\* The deadline texts whose numbers are no date of the calendar, in the
\* numeric formats and with a named month.
InvalidDateStrings ==
    UNION { UNION { UNION {
        IF NoCalendarDate(int(d), int(m), int(y))
        THEN { d \o "." \o m \o "." \o y, d \o "/" \o m \o "/" \o y,
               d \o "-" \o m \o "-" \o y, y \o "-" \o m \o "-" \o d }
        ELSE {} : y \in YearTexts } : m \in MonthTexts } : d \in DayTexts }
    \cup
    UNION { UNION { UNION {
        IF NoCalendarDate(int(d), MonthNumber(m), int(y))
        THEN { d \o " " \o m \o " " \o y }
        ELSE {} : y \in YearTexts } : m \in MonthNames } : d \in DayTexts }
    \cup { "31 aprilie 2027 ora 12", "15 aprilie 0000", "15.04.0000" }

\* The deadline texts of none of the patterns an extractor supports.
UnsupportedDateStrings(source) ==
    { "", "maine", "31.02", "15 aprilie", "15.04/2027", "2027.04.15",
      "15.04.27", "115.04.2027", "15.04.2027 ora 12", "aprilie 2027" }
    \cup (IF source = "fonduri_structurale"
          THEN NamedDateStrings \cup { "15  aprilie  2027 ora 12" }
          ELSE {})

\* C19: for a date text whose numbers are no calendar date, and for a text
\* of no supported pattern, the date normalizer of every extractor returns
\* no date, and it raises for no text.
C19_ParseDateNeverRaises ==
    pc \in {"d_parsed", "d_processed"} =>
        LET item == all_funding[1]
        IN  /\ log = << "parse_date: returned" >>
            /\ item.deadline[1] \in InvalidDateStrings
                                    \cup UnsupportedDateStrings(item.source) =>
                  item.deadline_date = NONE

\* "31 Aprilie 2027" was handed to the normalizer of finantare_ro, which
\* returned no date.
C19_Witness ==
    /\ pc = "d_parsed"
    /\ all_funding[1].source = "finantare_ro"
    /\ all_funding[1].deadline = Some("31 Aprilie 2027")
    /\ all_funding[1].deadline_date = NONE

(***************************************************************************)
(* Properties of the end of a run.                                         *)
(***************************************************************************)
\* C28: after every completed run the ids of new_matching are among those
\* of all_matching, those among the keys of the database, and those among
\* current_ids, the ids of all items scraped in the run; the dashboard is
\* rendered from all_matching, item by item; new_matching holds no id
\* twice.
C28_ContainmentChain ==
    pc = "done" =>
        /\ Ids(new_matching) \subseteq Ids(all_matching)
        /\ Ids(all_matching) \subseteq DOMAIN seen_data.funding
        /\ DOMAIN seen_data.funding \subseteq current_ids
        /\ current_ids = Ids(all_funding)
        /\ dashboard # NONE =>
              /\ Len(dashboard[1].funding) = Len(all_matching)
              /\ \A i \in 1..Len(all_matching) :
                    /\ dashboard[1].funding[i].id = all_matching[i].id
                    /\ dashboard[1].funding[i].title = all_matching[i].title
                    /\ dashboard[1].funding[i].matched_keywords
                           = all_matching[i].matched_keywords
        /\ \A i, j \in 1..Len(new_matching) :
              new_matching[i].id = new_matching[j].id => i = j

\* A second run ended with two matching items, one of them new, and the
\* dashboard written.
C28_Witness ==
    /\ pc = "done"
    /\ now = 2
    /\ Len(all_matching) = 2
    /\ Len(new_matching) = 1
    /\ DOMAIN seen_data.funding = Ids(all_matching)
    /\ dashboard # NONE

(***************************************************************************)
(* Properties of sequences of whole runs.                                  *)
(***************************************************************************)
\* The runs completed so far.
Completed == 1..Len(history)

\* The first completed run that observed k as a matching opportunity.
FirstMatched(k) ==
    CHOOSE i \in Completed :
        /\ k \in history[i].matching
        /\ \A j \in 1..(i - 1) : k \notin history[j].matching

\* The latest completed run that reported k as new.
LastNew(k) ==
    CHOOSE i \in Completed :
        /\ k \in history[i].new
        /\ \A j \in (i + 1)..Len(history) : k \notin history[j].new

\* C21 as stated: the first_seen stored for an id is the time of the first
\* run that observed the id as a matching opportunity, whatever happened to
\* its record since.
C21_FirstSeenOfFirstObservation ==
    pc = "r_done" =>
        \A k \in DOMAIN seen_data.funding :
            seen_data.funding[k].first_seen = history[FirstMatched(k)].now

\* C21, amended: the first_seen stored for an id, in the database of the
\* run and in the file, is the time of the latest run that reported the id
\* as new, that is of the first run that observed it as a matching
\* opportunity since its record was last absent from the loaded database;
\* no later run that loads the record replaces it.
C21_FirstSeenOfLatestInsertion ==
    /\ pc = "r_done" =>
           \A k \in DOMAIN seen_data.funding :
               seen_data.funding[k].first_seen = history[LastNew(k)].now
    /\ file.kind = "db" =>
           \A k \in DOMAIN file.data.funding :
               /\ \E i \in Completed : k \in history[i].new
               /\ file.data.funding[k].first_seen = history[LastNew(k)].now

\* A record inserted by the first run is loaded and kept by a second run
\* that observes the id as matching again.
C21_Witness ==
    /\ pc = "r_done"
    /\ Len(history) >= 2
    /\ \E k \in DOMAIN seen_data.funding :
          /\ k \in history[1].new
          /\ k \in history[2].loaded
          /\ k \in history[2].matching
          /\ seen_data.funding[k].first_seen = history[1].now
          /\ now > history[1].now

\* The ids the completed runs observed as matching.
EverMatched == UNION { history[i].matching : i \in Completed }

\* k was in the scrape of every run from the i-th to the j-th.
ListedThroughout(k, i, j) == \A m \in i..j : k \in history[m].listed

\* The saves of the runs from the i-th to the j-th wrote the file.
SavedThroughout(i, j) == \A m \in i..j : history[m].saved

\* C25: over completed runs whose saves all succeeded, an id that was in
\* the scrape of every run from the first run that observed it as matching
\* is reported as new, and handed to the notifier, in that first run and
\* in no other, whether or not it matched in the later runs.
C25_NewExactlyOnce ==
    SavedThroughout(1, Len(history)) =>
        \A k \in EverMatched :
            ListedThroughout(k, FirstMatched(k), Len(history)) =>
                \A i \in Completed :
                    /\ k \in history[i].new <=> i = FirstMatched(k)
                    /\ k \in history[i].sent <=> i = FirstMatched(k)

\* The link of AFCN matched in the first run, was listed without matching
\* in the second, matched again in the third, and was reported as new and
\* notified in the first run only.
C25_Witness ==
    /\ Len(history) = 3
    /\ SavedThroughout(1, 3)
    /\ LET k == << "afcn", 1 >>
       IN  /\ k \in history[1].new /\ k \in history[1].sent
           /\ k \in history[2].listed \ history[2].matching
           /\ k \in history[3].matching
           /\ k \notin history[3].new \cup history[3].sent

\* C26: a run in which a source failed keeps the records of the ids of
\* that source it had loaded, and an id that was missing from the scrapes
\* only in runs in which its source failed is not reported as new a second
\* time.
C26_OutageKeepsSeenState ==
    /\ pc = "r_done" =>
          \A k \in history[Len(history)].loaded :
              k[1] \in history[Len(history)].outage => k \in DOMAIN seen_data.funding
    /\ \A i, j \in Completed, k \in EverMatched :
          ( /\ i < j
            /\ k \in history[i].new
            /\ SavedThroughout(i, j - 1)
            /\ \A m \in i..j : k \in history[m].listed \/ k[1] \in history[m].outage )
          => k \notin history[j].new

Host(url) ==
    LET start == (CHOOSE p \in 1..Len(url) : SubSeq(url, p, p + 2) = "://") + 3
        rest  == SubSeq(url, start, Len(url))
    IN  Split(rest, "/")[1]

\* The domains of extractor i: the hosts of its listing URLs, without "www.".
OwnDomains(i) ==
    { replace(Host(sites[i][n].url), "www.", "") : n \in 1..Len(sites[i]) }

OnDomain(url, domain) ==
    Host(url) = domain \/ endswith(Host(url), "." \o domain)

OnOwnDomain(i, url) == \E d \in OwnDomains(i) : OnDomain(url, d)

\* C22: every item an extractor returns has a URL on a domain of that
\* extractor; a link to another site is not among them, whatever its URL
\* or text contains.
C22_OwnDomainOnly ==
    pc = "x_returned" =>
        \A k \in 1..Len(scraper_result.jobs) :
            OnOwnDomain(src_idx, scraper_result.jobs[k].url)

\* The jobs the listing pages gave, before any detail page was fetched.
ListedJobs == PageLoop(src_idx, 1, web.listings, << >>)

\* C23: an extractor that fetches detail pages returns every candidate of
\* its listing pages, in order; one whose detail fetch failed is returned
\* as the listing gave it (id, title, url and source, with no deadline, no
\* date and an empty description), and the details of the candidates after
\* it are fetched all the same.
C23_DetailFailureKeepsItem ==
    (pc = "x_returned" /\ src_idx # 2) =>
        /\ ~scraper_result.raised
        /\ Len(scraper_result.jobs) = Len(ListedJobs)
        /\ \A n \in 1..Len(ListedJobs) :
              LET job == scraper_result.jobs[n]
              IN  /\ job.id = ListedJobs[n].id
                  /\ job.title = ListedJobs[n].title
                  /\ job.url = ListedJobs[n].url
                  /\ job.source = ListedJobs[n].source
                  /\ IF web.fetched[n] \in DetailFailures
                     THEN /\ job.deadline = NONE
                          /\ job.deadline_date = NONE
                          /\ job.description = ""
                     ELSE /\ job.deadline = web.fetched[n].date_str
                          /\ job.description = Squeeze(web.fetched[n].text)

\* The detail page of the first of two candidates could not be fetched:
\* it is returned without details, and the second with those of its page.
C23_Witness ==
    /\ pc = "x_returned"
    /\ src_idx = 1
    /\ Len(scraper_result.jobs) = 2
    /\ web.fetched[1] = DetailFailed("request")
    /\ scraper_result.jobs[1].description = ""
    /\ scraper_result.jobs[1].deadline = NONE
    /\ scraper_result.jobs[2].deadline = Some("15.01.2027")
    /\ scraper_result.jobs[2].deadline_date = Some(48)
    /\ scraper_result.jobs[2].description = "Termen limita: 15.01.2027"

(***************************************************************************)
(* Properties of processes side by side.                                   *)
(***************************************************************************)
\* The position in the log of the call process p made.
CallOf(p, call) == CHOOSE i \in 1..Len(log) : log[i] = [ proc |-> p, call |-> call ]

\* Both processes have saved, and both had loaded before either saved.
Overlapped ==
    /\ \A p \in Procs : processes[p].pc = "done"
    /\ \A p, q \in Procs :
          CallOf(p, "load_seen_funding") < CallOf(q, "save_seen_funding")

\* The process that saved last, and the other one.
LastSaver ==
    CHOOSE p \in Procs :
        \A q \in Procs : CallOf(q, "save_seen_funding") <= CallOf(p, "save_seen_funding")

FirstSaver == CHOOSE p \in Procs : p # LastSaver

NotifiedIds(p) == { processes[p].notified[i].id : i \in 1..Len(processes[p].notified) }

\* C24: when two runs overlap on one database file (both load before
\* either saves), an id that both observe as matching and the file did
\* not hold is reported as new and handed to the notifier by both; and
\* when the last save writes the file, the file holds the database of
\* that run alone: a record the other run inserted for an id the last
\* saver did not insert or load is gone.
C24_CheckThenInsertNotAtomic ==
    Overlapped =>
        /\ \A k \in Ids(processes[1].all_matching) \cap Ids(processes[2].all_matching) :
              k \notin processes[1].loaded =>
                  \A p \in Procs :
                      /\ k \in Ids(processes[p].new_matching)
                      /\ k \in NotifiedIds(p)
        /\ file.kind = "db" /\ file.data.last_updated = Some(processes[LastSaver].now) =>
              /\ file.data.funding = processes[LastSaver].seen_data.funding
              /\ \A k \in Ids(processes[FirstSaver].new_matching) :
                    k \notin DOMAIN processes[LastSaver].seen_data.funding =>
                        k \notin DOMAIN file.data.funding

\* Both runs reported the link of Finantare.ro as new and notified it, and
\* the record the first saver wrote for the link of AFCN is not in the file
\* the last saver left.
C24_Witness ==
    /\ Overlapped
    /\ file.kind = "db"
    /\ \A p \in Procs : << "finantare_ro", 1 >> \in NotifiedIds(p)
    /\ << "afcn", 1 >> \in DOMAIN processes[FirstSaver].seen_data.funding
    /\ << "afcn", 1 >> \notin DOMAIN file.data.funding

(***************************************************************************)
(* Properties of the dashboard in a browser.                               *)
(***************************************************************************)
NoIdTwice(list) == \A i, j \in 1..Len(list) : list[i] = list[j] => i = j

\* The number of the three displayed lists the job is on.
ShownOn(job) ==
    Cardinality({ l \in {"main", "applied", "irrelevant"} :
                    \E i \in 1..Len(browser.shown[l]) : browser.shown[l][i] = job })

C30_NotifierAgreesWithClassifier ==
    pc = "c_notified" =>
        \A i \in 1..Len(notified) :
            /\ \A k \in Range(notified[i].matched_keywords) :
                   k \in Range(notified[i].message.high)
                       <=> k \in Range(HIGH_PRIORITY_KEYWORDS)
            /\ notified[i].message.high # << >> <=> new_matching[i].is_high_priority

====
